---- MODULE Spec2Model ----
(***************************************************************************)
(* A model of the simulation core of ai-avatar-arena                       *)
(* (src/src/hooks/useSimulationState.ts): the world state held by the      *)
(* useSimulationState hook, the resolver executeDecision, the user         *)
(* mutations, and the clock of the simulation loop effect.                 *)
(*                                                                         *)
(* Conventions.                                                            *)
(*  - state is the React state (AppState); every setState(prev => ...) of  *)
(*    the source is one atomic transition prev -> next.  stateRef.current  *)
(*    is taken to equal state (the commit that copies it runs before any   *)
(*    timer or promise callback reads it).                                 *)
(*  - Ids are the numbers generateId draws from nextIdCounter (the prefix  *)
(*    is dropped); 0 stands for an absent id (undefined).                  *)
(*  - Times are kept relative to the current instant: Date.now() is 0 and  *)
(*    nextDecisionTime holds (timestamp - Date.now()), floored at 0, so    *)
(*    `now >= nextDecisionTime` is `nextDecisionTime = 0`.  Advance lets   *)
(*    time pass.  Time stamps that are only stored (startTime, endTime,    *)
(*    message timestamps) are kept as presence flags; endedAt stands for   *)
(*    the value of endTime, as the serial number of the ending.            *)
(*  - Positions are integers in 1/1000 of a board unit; cos and sin are    *)
(*    the tables Cos1000, Sin1000 (rounded to 1/1000).                     *)
(*  - A thought is the sequence of the pieces the code concatenates;       *)
(*    << >> is undefined.                                                  *)
(*  - A missing decision parameter is a field missing from the record's    *)
(*    DOMAIN; decision.parameters undefined is the empty function << >>.   *)
(*  - addLog is a setState transform of its own that touches only          *)
(*    simulationLogs; it is not repeated inside the other transforms.  A   *)
(*    log entry is the serial number of its message.                       *)
(*  - The speed multiplier timeScale is a whole number.                    *)
(***************************************************************************)
EXTENDS Integers, Sequences, FiniteSets, TLC

VARIABLES
    state,          \* AppState: avatars, objects, obstacles, conversations, simulation,
                    \* simulationLogs, isRunning
    nextIdCounter,  \* the module-level id counter of generateId
    clock,          \* the loop effect's refs and closures (see InitClock)
    inflight,       \* outstanding oracle requests: records [avatar, gen, phase, thought,
                    \* availableActions]
    lastOp          \* history: the operation performed last

vars == <<state, nextIdCounter, clock, inflight, lastOp>>

----------------------------------------------------------------------------
(* Bounds of the model *)

MaxIdCounter == 7
MaxAvatars == 3
MaxConversations == 2
MaxGen == 2
MaxLog == 2
MaxObjects == 2
MaxAppends == 104
MaxTexts == 23
\* the granularity of time: what one Advance step lets pass, in ms
TimeStep == 500

(* Program constants *)

MinAvatars == 2
AvatarLimit == 10
AvatarRadius == 8000
DefaultRateLimit == 1000
SecondRateLimit == 1500
InteractDelay == 500
FallbackDelay == 1000
MinDelay == 100
MaxDelay == 10000
MaxMove == 15
SnapAngle == 30
MaxMessages == 20
PollInterval == 50
DefaultTurnDuration == 1000
MinTickDelay == 10
MinBoardSize == 100000
AvatarInset == 8000
ObjectInset == 5000
LogCapacity == 100
MaxTurn == 180
SanitizedPause == 500
MaxPause == 5000
MaxRadius == 100000

Undefined == "undefined"
None == 0

----------------------------------------------------------------------------
(* Small helpers *)

Min(a, b) == IF a < b THEN a ELSE b
Max(a, b) == IF a > b THEN a ELSE b
Abs(a) == IF a < 0 THEN -a ELSE a

\* JavaScript's %: the sign of the result is the sign of the dividend.
JsRem(a, n) == IF a >= 0 THEN a % n ELSE -((-a) % n)

\* Math.round(a / n) for integers a and n > 0: ties go up.
RoundDiv(a, n) == (2 * a + n) \div (2 * n)

Has(p, f) == f \in DOMAIN p

\* p?.f ?? dflt
ParamOr(p, f, dflt) == IF Has(p, f) THEN p[f] ELSE dflt

\* Array.prototype.slice(-n)
LastN(s, n) == IF Len(s) <= n THEN s ELSE SubSeq(s, Len(s) - n + 1, Len(s))

Ids(s) == {s[i].id : i \in DOMAIN s}

\* Array.prototype.findIndex, 1-based; 0 when nothing is found (-1 in the source).
AvatarIndex(avs, id) ==
    IF \E i \in DOMAIN avs : avs[i].id = id
    THEN CHOOSE i \in DOMAIN avs : avs[i].id = id /\ \A j \in 1..(i - 1) : avs[j].id # id
    ELSE 0

Includes(c, id) == c.participants[1] = id \/ c.participants[2] = id

\* endTime: Date.now(), as the serial number of the ending among the
\* conversations convs.
endStamp(convs) == 1 + Cardinality({i \in DOMAIN convs : convs[i].endTime})

\* findIndex(c => c.participants.includes(a) && c.participants.includes(b) && !c.endTime)
ActiveConvIndex(convs, a, b) ==
    LET hit(i) == Includes(convs[i], a) /\ Includes(convs[i], b) /\ ~convs[i].endTime
    IN IF \E i \in DOMAIN convs : hit(i)
       THEN CHOOSE i \in DOMAIN convs : hit(i) /\ \A j \in 1..(i - 1) : ~hit(j)
       ELSE 0

\* 1000 * Math.cos(deg * PI / 180), rounded, for the multiples of 30 degrees.
Cos1000(deg) ==
    LET d == deg % 360
    IN CASE d = 0 -> 1000 [] d = 30 -> 866 [] d = 60 -> 500 [] d = 90 -> 0
         [] d = 120 -> -500 [] d = 150 -> -866 [] d = 180 -> -1000
         [] d = 210 -> -866 [] d = 240 -> -500 [] d = 270 -> 0
         [] d = 300 -> 500 [] d = 330 -> 866

Sin1000(deg) == Cos1000(deg + 270)

\* distance(p1, p2) < r, with the squares kept inside 32 bits.
Closer(p1, p2, r) ==
    /\ Abs(p1.x - p2.x) < r
    /\ Abs(p1.y - p2.y) < r
    /\ ((p1.x - p2.x) \div 10) * ((p1.x - p2.x) \div 10)
         + ((p1.y - p2.y) \div 10) * ((p1.y - p2.y) \div 10) < (r \div 10) * (r \div 10)

isPointInBounds(point, boardSize) ==
    /\ point.x >= 0 /\ point.x <= boardSize.width
    /\ point.y >= 0 /\ point.y <= boardSize.height

----------------------------------------------------------------------------
(* The initial world *)

Avatar(id, x, y, orientation, rateLimit) ==
    [id |-> id, position |-> [x |-> x, y |-> y], orientation |-> orientation,
     settings |-> [rateLimit |-> rateLimit, eyesight |-> [radius |-> 100000, angle |-> 180]],
     currentAction |-> Undefined, conversationTarget |-> None,
     thought |-> << >>, nextDecisionTime |-> 0]

\* createInitialState with the ids c, c+1, ..., c+4.
createInitialState(c) ==
    [avatars |-> << Avatar(c, 50000, 50000, 0, DefaultRateLimit),
                    Avatar(c + 1, 450000, 450000, 180, SecondRateLimit) >>,
     objects |-> << [id |-> c + 2, position |-> [x |-> 250000, y |-> 250000],
                     description |-> "A curious glowing orb."] >>,
     obstacles |-> << [id |-> c + 3, position |-> [x |-> 100000, y |-> 100000],
                       size |-> [x |-> 10000, y |-> 150000]],
                      [id |-> c + 4, position |-> [x |-> 300000, y |-> 300000],
                       size |-> [x |-> 150000, y |-> 10000]] >>,
     conversations |-> << >>,
     simulation |-> [mode |-> "time-based", boardSize |-> [width |-> 500000, height |-> 500000],
                     turnDuration |-> 1000, timeScale |-> 1],
     simulationLogs |-> << 0 >>,
     isRunning |-> FALSE]

IdsPerInitialState == 5

----------------------------------------------------------------------------
(* User mutations of the world (setState transforms) *)

\* addAvatar: the setState transform, with the id, position and orientation drawn.
addAvatar(prev, id, position, orientation) ==
    IF Len(prev.avatars) >= AvatarLimit THEN prev
    ELSE [prev EXCEPT !.avatars =
            Append(prev.avatars,
                   Avatar(id, position.x, position.y, orientation, DefaultRateLimit))]

\* updateSimulationSettings: simulation: { ...prev.simulation, ...newSettings }
updateSimulationSettings(prev, newSettings) ==
    [prev EXCEPT !.simulation =
        [f \in DOMAIN prev.simulation |->
           IF f \in DOMAIN newSettings THEN newSettings[f] ELSE prev.simulation[f]]]

\* resizeBoard: the setState transform
resizeBoard(prev, newSize) ==
    LET finalSize == [width |-> Max(MinBoardSize, newSize.width),
                      height |-> Max(MinBoardSize, newSize.height)]
        inset(pos, d) ==
            [x |-> Min(Max(pos.x, 0 + d), finalSize.width - d),
             y |-> Min(Max(pos.y, 0 + d), finalSize.height - d)]
        clampObstacle(ob) ==
            [ob EXCEPT !.position =
                [x |-> Min(Max(ob.position.x, 0), finalSize.width - ob.size.x),
                 y |-> Min(Max(ob.position.y, 0), finalSize.height - ob.size.y)]]
        clamped == [i \in DOMAIN prev.obstacles |-> clampObstacle(prev.obstacles[i])]
    IN [prev EXCEPT
          !.simulation.boardSize = finalSize,
          !.avatars = [i \in DOMAIN prev.avatars |->
                         [prev.avatars[i] EXCEPT !.position = inset(@, AvatarInset)]],
          !.objects = [i \in DOMAIN prev.objects |->
                         [prev.objects[i] EXCEPT !.position = inset(@, ObjectInset)]],
          !.obstacles = SelectSeq(clamped,
                                  LAMBDA ob : /\ ob.position.x < finalSize.width
                                              /\ ob.position.y < finalSize.height)]

\* addLog: the setState transform; an entry is the serial number of its message,
\* 0 for the entry a new or loaded world starts with.
addLog(prev, entry) ==
    [prev EXCEPT !.simulationLogs = Append(LastN(prev.simulationLogs, LogCapacity), entry)]

\* addObject: the setState transform, with the id drawn.
addObject(prev, id, position) ==
    [prev EXCEPT !.objects =
        Append(prev.objects, [id |-> id, position |-> position, description |-> "A new object"])]

\* removeAvatar with its floor test off by one (< instead of <=).
removeAvatar_OffByOne(prev, avatarId) ==
    IF Len(prev.avatars) < MinAvatars THEN prev
    ELSE [prev EXCEPT !.avatars = SelectSeq(prev.avatars, LAMBDA a : a.id # avatarId)]

\* A removal that leaves the partners pointing at the removed avatar.
removeAvatar_LeavesPartner(prev, avatarId) ==
    IF Len(prev.avatars) <= MinAvatars THEN prev
    ELSE
      LET active(c) == Includes(c, avatarId) /\ ~c.endTime
          nextConversations ==
              [i \in DOMAIN prev.conversations |->
                  IF active(prev.conversations[i])
                  THEN [prev.conversations[i] EXCEPT !.endTime = TRUE,
                                                  !.endedAt = endStamp(prev.conversations)]
                  ELSE prev.conversations[i]]
          partnersToReset ==
              {p \in Ids(prev.avatars) \ {avatarId} :
                  \E i \in DOMAIN prev.conversations :
                      active(prev.conversations[i]) /\ Includes(prev.conversations[i], p)}
          kept == SelectSeq(prev.avatars, LAMBDA a : a.id # avatarId)
          nextAvatars ==
              [i \in DOMAIN kept |->
                  IF kept[i].id \in partnersToReset
                  THEN [kept[i] EXCEPT !.currentAction = Undefined]
                  ELSE kept[i]]
      IN [prev EXCEPT !.avatars = nextAvatars, !.conversations = nextConversations]

\* A removal that ends again the conversations of the avatar that had ended.
removeAvatar_RestampsEnded(prev, avatarId) ==
    IF Len(prev.avatars) <= MinAvatars THEN prev
    ELSE
      LET active(c) == Includes(c, avatarId) /\ ~c.endTime
          nextConversations ==
              [i \in DOMAIN prev.conversations |->
                  IF Includes(prev.conversations[i], avatarId)
                  THEN [prev.conversations[i] EXCEPT !.endTime = TRUE,
                                                  !.endedAt = endStamp(prev.conversations)]
                  ELSE prev.conversations[i]]
          partnersToReset ==
              {p \in Ids(prev.avatars) \ {avatarId} :
                  \E i \in DOMAIN prev.conversations :
                      active(prev.conversations[i]) /\ Includes(prev.conversations[i], p)}
          kept == SelectSeq(prev.avatars, LAMBDA a : a.id # avatarId)
          nextAvatars ==
              [i \in DOMAIN kept |->
                  IF kept[i].id \in partnersToReset
                  THEN [kept[i] EXCEPT !.conversationTarget = None,
                                       !.currentAction = Undefined]
                  ELSE kept[i]]
      IN [prev EXCEPT !.avatars = nextAvatars, !.conversations = nextConversations]

\* removeAvatar: the setState transform.
removeAvatar(prev, avatarId) ==
    IF Len(prev.avatars) <= MinAvatars THEN prev
    ELSE
      LET active(c) == Includes(c, avatarId) /\ ~c.endTime
          nextConversations ==
              [i \in DOMAIN prev.conversations |->
                  IF active(prev.conversations[i])
                  THEN [prev.conversations[i] EXCEPT !.endTime = TRUE,
                                                  !.endedAt = endStamp(prev.conversations)]
                  ELSE prev.conversations[i]]
          partnersToReset ==
              {p \in Ids(prev.avatars) \ {avatarId} :
                  \E i \in DOMAIN prev.conversations :
                      active(prev.conversations[i]) /\ Includes(prev.conversations[i], p)}
          kept == SelectSeq(prev.avatars, LAMBDA a : a.id # avatarId)
          nextAvatars ==
              [i \in DOMAIN kept |->
                  IF kept[i].id \in partnersToReset
                  THEN [kept[i] EXCEPT !.conversationTarget = None,
                                       !.currentAction = Undefined]
                  ELSE kept[i]]
      IN [prev EXCEPT !.avatars = nextAvatars, !.conversations = nextConversations]

----------------------------------------------------------------------------
(* Persistence: the save effect's projection and the load effect *)

\* What the save effect writes: runtime avatar fields dropped, ended
\* conversations pruned, logs and the running flag left out.
SaveProjection(s) ==
    [avatars |-> [i \in DOMAIN s.avatars |->
                    [id |-> s.avatars[i].id, position |-> s.avatars[i].position,
                     orientation |-> s.avatars[i].orientation,
                     settings |-> s.avatars[i].settings]],
     objects |-> s.objects, obstacles |-> s.obstacles,
     conversations |-> SelectSeq(s.conversations, LAMBDA c : ~c.endTime),
     simulation |-> s.simulation]

\* An eyesight angle found in the store, other than the one the load forces.
StoredAngle == 90

\* A load that keeps the eyesight angle it finds stored.
loadState_KeepsAngle(saved, c) ==
    IF ~Has(saved, "avatars") \/ Len(saved.avatars) < MinAvatars THEN createInitialState(c)
    ELSE [avatars |-> [i \in DOMAIN saved.avatars |->
                         [id |-> saved.avatars[i].id,
                          position |-> saved.avatars[i].position,
                          orientation |-> saved.avatars[i].orientation,
                          settings |-> saved.avatars[i].settings,
                          currentAction |-> Undefined, conversationTarget |-> None,
                          thought |-> << >>, nextDecisionTime |-> 0]],
          objects |-> saved.objects, obstacles |-> saved.obstacles,
          conversations |-> saved.conversations,
          simulation |-> saved.simulation,
          simulationLogs |-> << 0 >>,
          isRunning |-> FALSE]

\* The load effect on a saved projection; c is the id counter for a fresh world.
loadState(saved, c) ==
    IF ~Has(saved, "avatars") \/ Len(saved.avatars) < MinAvatars THEN createInitialState(c)
    ELSE [avatars |-> [i \in DOMAIN saved.avatars |->
                         [id |-> saved.avatars[i].id,
                          position |-> saved.avatars[i].position,
                          orientation |-> saved.avatars[i].orientation,
                          settings |-> [saved.avatars[i].settings
                                          EXCEPT !.eyesight.angle = 180],
                          currentAction |-> Undefined, conversationTarget |-> None,
                          thought |-> << >>, nextDecisionTime |-> 0]],
          objects |-> saved.objects, obstacles |-> saved.obstacles,
          conversations |-> saved.conversations,
          simulation |-> saved.simulation,
          simulationLogs |-> << 0 >>,
          isRunning |-> FALSE]

----------------------------------------------------------------------------
(* The resolver: executeDecision *)

\* let finalThought = decision.thought || (action === 'think' ? 'Thinking...' : undefined)
initialThought(decision) ==
    IF decision.thought # << >> THEN decision.thought
    ELSE IF decision.action = "think" THEN <<"Thinking...">> ELSE << >>

\* finalThought = (finalThought ? finalThought + " " : "") + note
Annotate(thought, note) == Append(thought, note)

\* What a case of the switch leaves behind for the final update.
CaseResult(prev, cur, action, thought) ==
    [avatars |-> prev.avatars, conversations |-> prev.conversations,
     position |-> cur.position, orientation |-> cur.orientation,
     conversationTarget |-> cur.conversationTarget,
     action |-> action, thought |-> thought]

\* case 'turn'
caseTurn(prev, cur, params, thought) ==
    LET turnAngle == ParamOr(params, "angle", 0)
        snappedAngle == RoundDiv(turnAngle, SnapAngle) * SnapAngle
    IN [CaseResult(prev, cur, "turn", thought)
          EXCEPT !.orientation = JsRem(cur.orientation + snappedAngle + 360, 360)]

\* A candidate position computed from the distance as given, not clamped.
potentialPosition_NoClamp(cur, params) ==
    LET moveDistance == ParamOr(params, "distance", 0)
    IN [x |-> cur.position.x + moveDistance * Cos1000(cur.orientation),
        y |-> cur.position.y + moveDistance * Sin1000(cur.orientation)]

\* The candidate position of a move.
potentialPosition(cur, params) ==
    LET moveDistance == ParamOr(params, "distance", 0)
        clampedDistance == Max(-MaxMove, Min(MaxMove, moveDistance))
    IN [x |-> cur.position.x + clampedDistance * Cos1000(cur.orientation),
        y |-> cur.position.y + clampedDistance * Sin1000(cur.orientation)]

\* A collision test that forgets the other avatars.
collided_IgnoresAvatars(prev, avatarId, pos) ==
    \/ ~isPointInBounds(pos, prev.simulation.boardSize)
    \/ \E i \in DOMAIN prev.obstacles :
          LET obs == prev.obstacles[i]
              closest == [x |-> Max(obs.position.x, Min(pos.x, obs.position.x + obs.size.x)),
                          y |-> Max(obs.position.y, Min(pos.y, obs.position.y + obs.size.y))]
          IN Closer(pos, closest, AvatarRadius)

\* A collision test that does not look at the board's boundary.
collided_IgnoresBounds(prev, avatarId, pos) ==
    \/ \E i \in DOMAIN prev.obstacles :
          LET obs == prev.obstacles[i]
              closest == [x |-> Max(obs.position.x, Min(pos.x, obs.position.x + obs.size.x)),
                          y |-> Max(obs.position.y, Min(pos.y, obs.position.y + obs.size.y))]
          IN Closer(pos, closest, AvatarRadius)
    \/ \E i \in DOMAIN prev.avatars :
          /\ prev.avatars[i].id # avatarId
          /\ Closer(pos, prev.avatars[i].position, AvatarRadius + AvatarRadius)

\* The collision test of a move: boundary, then obstacles, then other avatars.
collided(prev, avatarId, pos) ==
    \/ ~isPointInBounds(pos, prev.simulation.boardSize)
    \/ \E i \in DOMAIN prev.obstacles :
          LET obs == prev.obstacles[i]
              closest == [x |-> Max(obs.position.x, Min(pos.x, obs.position.x + obs.size.x)),
                          y |-> Max(obs.position.y, Min(pos.y, obs.position.y + obs.size.y))]
          IN Closer(pos, closest, AvatarRadius)
    \/ \E i \in DOMAIN prev.avatars :
          /\ prev.avatars[i].id # avatarId
          /\ Closer(pos, prev.avatars[i].position, AvatarRadius + AvatarRadius)

\* case 'move'
caseMove(prev, cur, params, thought) ==
    LET pos == potentialPosition(cur, params)
    IN IF ~collided(prev, cur.id, pos)
       THEN [CaseResult(prev, cur, "move", thought) EXCEPT !.position = pos]
       ELSE CaseResult(prev, cur, "move", Annotate(thought, "(Movement blocked)"))

\* An initiate_conversation that marks only the initiator.
caseInitiate_OneSided(prev, cur, params, thought, convId) ==
    LET targetAvatarId == ParamOr(params, "targetId", None)
        message == ParamOr(params, "message", "")
        idle(note) == CaseResult(prev, cur, "idle", Annotate(thought, note))
    IN IF targetAvatarId # None /\ message # ""
       THEN IF cur.conversationTarget # None
            THEN idle("(Tried to initiate conversation while already in one)")
            ELSE LET ti == AvatarIndex(prev.avatars, targetAvatarId)
                 IN IF ti # 0 /\ targetAvatarId # cur.id
                    THEN IF prev.avatars[ti].conversationTarget # None
                         THEN idle("(Target busy)")
                         ELSE [CaseResult(prev, cur, "conversing", thought) EXCEPT
                                 !.conversations =
                                     Append(prev.conversations,
                                            [id |-> convId,
                                             participants |-> <<cur.id, targetAvatarId>>,
                                             messages |-> << [avatarId |-> cur.id,
                                                              text |-> message] >>,
                                             endTime |-> FALSE, endedAt |-> 0]),
                                 !.conversationTarget = targetAvatarId,
                                 !.avatars =
                                     [i \in DOMAIN prev.avatars |->
                                        IF prev.avatars[i].id = cur.id
                                        THEN [prev.avatars[i] EXCEPT
                                                !.conversationTarget = targetAvatarId,
                                                !.currentAction = "conversing"]
                                        ELSE prev.avatars[i]]]
                    ELSE idle("(Target avatar invalid)")
       ELSE idle("(Missing parameters for initiate_conversation)")

\* An initiate_conversation whose failure clears the initiator's target.
caseInitiate_FailureClearsTarget(prev, cur, params, thought, convId) ==
    LET targetAvatarId == ParamOr(params, "targetId", None)
        message == ParamOr(params, "message", "")
        idle(note) == [CaseResult(prev, cur, "idle", Annotate(thought, note))
                         EXCEPT !.conversationTarget = None]
    IN IF targetAvatarId # None /\ message # ""
       THEN IF cur.conversationTarget # None
            THEN idle("(Tried to initiate conversation while already in one)")
            ELSE LET ti == AvatarIndex(prev.avatars, targetAvatarId)
                 IN IF ti # 0 /\ targetAvatarId # cur.id
                    THEN IF prev.avatars[ti].conversationTarget # None
                         THEN idle("(Target busy)")
                         ELSE [CaseResult(prev, cur, "conversing", thought) EXCEPT
                                 !.conversations =
                                     Append(prev.conversations,
                                            [id |-> convId,
                                             participants |-> <<cur.id, targetAvatarId>>,
                                             messages |-> << [avatarId |-> cur.id,
                                                              text |-> message] >>,
                                             endTime |-> FALSE, endedAt |-> 0]),
                                 !.conversationTarget = targetAvatarId,
                                 !.avatars =
                                     [i \in DOMAIN prev.avatars |->
                                        IF prev.avatars[i].id = cur.id
                                        THEN [prev.avatars[i] EXCEPT
                                                !.conversationTarget = targetAvatarId,
                                                !.currentAction = "conversing"]
                                        ELSE IF prev.avatars[i].id = targetAvatarId
                                        THEN [prev.avatars[i] EXCEPT
                                                !.conversationTarget = cur.id,
                                                !.currentAction = "conversing"]
                                        ELSE prev.avatars[i]]]
                    ELSE idle("(Target avatar invalid)")
       ELSE idle("(Missing parameters for initiate_conversation)")

\* An initiate_conversation that does not look at who is conversing already.
caseInitiate_IgnoresBusy(prev, cur, params, thought, convId) ==
    LET targetAvatarId == ParamOr(params, "targetId", None)
        message == ParamOr(params, "message", "")
        idle(note) == CaseResult(prev, cur, "idle", Annotate(thought, note))
    IN IF targetAvatarId # None /\ message # ""
       THEN IF FALSE
            THEN idle("(Tried to initiate conversation while already in one)")
            ELSE LET ti == AvatarIndex(prev.avatars, targetAvatarId)
                 IN IF ti # 0 /\ targetAvatarId # cur.id
                    THEN IF FALSE
                         THEN idle("(Target busy)")
                         ELSE [CaseResult(prev, cur, "conversing", thought) EXCEPT
                                 !.conversations =
                                     Append(prev.conversations,
                                            [id |-> convId,
                                             participants |-> <<cur.id, targetAvatarId>>,
                                             messages |-> << [avatarId |-> cur.id,
                                                              text |-> message] >>,
                                             endTime |-> FALSE, endedAt |-> 0]),
                                 !.conversationTarget = targetAvatarId,
                                 !.avatars =
                                     [i \in DOMAIN prev.avatars |->
                                        IF prev.avatars[i].id = cur.id
                                        THEN [prev.avatars[i] EXCEPT
                                                !.conversationTarget = targetAvatarId,
                                                !.currentAction = "conversing"]
                                        ELSE IF prev.avatars[i].id = targetAvatarId
                                        THEN [prev.avatars[i] EXCEPT
                                                !.conversationTarget = cur.id,
                                                !.currentAction = "conversing"]
                                        ELSE prev.avatars[i]]]
                    ELSE idle("(Target avatar invalid)")
       ELSE idle("(Missing parameters for initiate_conversation)")

\* case 'initiate_conversation'; convId is the id generateId would draw.
caseInitiate(prev, cur, params, thought, convId) ==
    LET targetAvatarId == ParamOr(params, "targetId", None)
        message == ParamOr(params, "message", "")
        idle(note) == CaseResult(prev, cur, "idle", Annotate(thought, note))
    IN IF targetAvatarId # None /\ message # ""
       THEN IF cur.conversationTarget # None
            THEN idle("(Tried to initiate conversation while already in one)")
            ELSE LET ti == AvatarIndex(prev.avatars, targetAvatarId)
                 IN IF ti # 0 /\ targetAvatarId # cur.id
                    THEN IF prev.avatars[ti].conversationTarget # None
                         THEN idle("(Target busy)")
                         ELSE [CaseResult(prev, cur, "conversing", thought) EXCEPT
                                 !.conversations =
                                     Append(prev.conversations,
                                            [id |-> convId,
                                             participants |-> <<cur.id, targetAvatarId>>,
                                             messages |-> << [avatarId |-> cur.id,
                                                              text |-> message] >>,
                                             endTime |-> FALSE, endedAt |-> 0]),
                                 !.conversationTarget = targetAvatarId,
                                 !.avatars =
                                     [i \in DOMAIN prev.avatars |->
                                        IF prev.avatars[i].id = cur.id
                                        THEN [prev.avatars[i] EXCEPT
                                                !.conversationTarget = targetAvatarId,
                                                !.currentAction = "conversing"]
                                        ELSE IF prev.avatars[i].id = targetAvatarId
                                        THEN [prev.avatars[i] EXCEPT
                                                !.conversationTarget = cur.id,
                                                !.currentAction = "conversing"]
                                        ELSE prev.avatars[i]]]
                    ELSE idle("(Target avatar invalid)")
       ELSE idle("(Missing parameters for initiate_conversation)")

\* A continue_conversation that never drops a message from the log.
caseContinue_NoTruncation(prev, cur, params, thought) ==
    LET continueTargetId == ParamOr(params, "targetId", None)
        continueMessage == ParamOr(params, "message", "")
        fail(note) == [CaseResult(prev, cur, "idle", Annotate(thought, note))
                         EXCEPT !.conversationTarget = None]
    IN IF continueTargetId # None /\ continueMessage # ""
          /\ cur.conversationTarget = continueTargetId
       THEN LET convIndex == ActiveConvIndex(prev.conversations, cur.id, continueTargetId)
            IN IF convIndex # 0
               THEN [CaseResult(prev, cur, "conversing", thought) EXCEPT
                       !.conversations[convIndex].messages =
                           Append(@,
                                  [avatarId |-> cur.id, text |-> continueMessage])]
               ELSE fail("(No active conversation)")
       ELSE fail("(Invalid parameters or state for continue_conversation)")

\* A continue_conversation whose failure leaves the avatar's target in place.
caseContinue_FailureKeepsTarget(prev, cur, params, thought) ==
    LET continueTargetId == ParamOr(params, "targetId", None)
        continueMessage == ParamOr(params, "message", "")
        fail(note) == CaseResult(prev, cur, "idle", Annotate(thought, note))
    IN IF continueTargetId # None /\ continueMessage # ""
          /\ cur.conversationTarget = continueTargetId
       THEN LET convIndex == ActiveConvIndex(prev.conversations, cur.id, continueTargetId)
            IN IF convIndex # 0
               THEN [CaseResult(prev, cur, "conversing", thought) EXCEPT
                       !.conversations[convIndex].messages =
                           Append(LastN(@, MaxMessages - 1),
                                  [avatarId |-> cur.id, text |-> continueMessage])]
               ELSE fail("(No active conversation)")
       ELSE fail("(Invalid parameters or state for continue_conversation)")

\* case 'continue_conversation'
caseContinue(prev, cur, params, thought) ==
    LET continueTargetId == ParamOr(params, "targetId", None)
        continueMessage == ParamOr(params, "message", "")
        fail(note) == [CaseResult(prev, cur, "idle", Annotate(thought, note))
                         EXCEPT !.conversationTarget = None]
    IN IF continueTargetId # None /\ continueMessage # ""
          /\ cur.conversationTarget = continueTargetId
       THEN LET convIndex == ActiveConvIndex(prev.conversations, cur.id, continueTargetId)
            IN IF convIndex # 0
               THEN [CaseResult(prev, cur, "conversing", thought) EXCEPT
                       !.conversations[convIndex].messages =
                           Append(LastN(@, MaxMessages - 1),
                                  [avatarId |-> cur.id, text |-> continueMessage])]
               ELSE fail("(No active conversation)")
       ELSE fail("(Invalid parameters or state for continue_conversation)")

\* A disengage_conversation that resets only the avatar that disengages.
caseDisengage_OneSided(prev, cur, params, thought) ==
    LET disengageTargetId == ParamOr(params, "targetId", None)
    IN IF disengageTargetId # None /\ cur.conversationTarget = disengageTargetId
       THEN LET convIndex == ActiveConvIndex(prev.conversations, cur.id, disengageTargetId)
                base == [CaseResult(prev, cur, "idle", thought)
                           EXCEPT !.conversationTarget = None]
            IN IF convIndex # 0
               THEN [base EXCEPT
                       !.conversations[convIndex].endTime = TRUE,
                       !.conversations[convIndex].endedAt = endStamp(prev.conversations),
                       !.avatars =
                           [i \in DOMAIN prev.avatars |->
                              IF prev.avatars[i].id \in {cur.id}
                              THEN [prev.avatars[i] EXCEPT !.currentAction = Undefined,
                                                           !.conversationTarget = None]
                              ELSE prev.avatars[i]]]
               ELSE base
       ELSE CaseResult(prev, cur,
                       IF cur.conversationTarget = None THEN "idle"
                       ELSE "disengage_conversation",
                       Annotate(thought,
                                "(Cannot disengage, not in conversation or missing target)"))

\* case 'disengage_conversation'
caseDisengage(prev, cur, params, thought) ==
    LET disengageTargetId == ParamOr(params, "targetId", None)
    IN IF disengageTargetId # None /\ cur.conversationTarget = disengageTargetId
       THEN LET convIndex == ActiveConvIndex(prev.conversations, cur.id, disengageTargetId)
                base == [CaseResult(prev, cur, "idle", thought)
                           EXCEPT !.conversationTarget = None]
            IN IF convIndex # 0
               THEN [base EXCEPT
                       !.conversations[convIndex].endTime = TRUE,
                       !.conversations[convIndex].endedAt = endStamp(prev.conversations),
                       !.avatars =
                           [i \in DOMAIN prev.avatars |->
                              IF prev.avatars[i].id \in {cur.id, disengageTargetId}
                              THEN [prev.avatars[i] EXCEPT !.currentAction = Undefined,
                                                           !.conversationTarget = None]
                              ELSE prev.avatars[i]]]
               ELSE base
       ELSE CaseResult(prev, cur,
                       IF cur.conversationTarget = None THEN "idle"
                       ELSE "disengage_conversation",
                       Annotate(thought,
                                "(Cannot disengage, not in conversation or missing target)"))

\* A switch that keeps an action it does not recognize.
switchAction_KeepsUnknown(prev, cur, updateAction, params, thought, convId) ==
    CASE updateAction = "turn" -> caseTurn(prev, cur, params, thought)
      [] updateAction = "move" -> caseMove(prev, cur, params, thought)
      [] updateAction = "interact_object" -> CaseResult(prev, cur, "idle", thought)
      [] updateAction = "initiate_conversation" ->
             caseInitiate(prev, cur, params, thought, convId)
      [] updateAction = "continue_conversation" -> caseContinue(prev, cur, params, thought)
      [] updateAction = "disengage_conversation" -> caseDisengage(prev, cur, params, thought)
      [] updateAction = "think" -> CaseResult(prev, cur, "thinking", thought)
      [] OTHER -> CaseResult(prev, cur, updateAction, thought)

\* The switch on updateAction.
switchAction(prev, cur, updateAction, params, thought, convId) ==
    CASE updateAction = "turn" -> caseTurn(prev, cur, params, thought)
      [] updateAction = "move" -> caseMove(prev, cur, params, thought)
      [] updateAction = "interact_object" -> CaseResult(prev, cur, "idle", thought)
      [] updateAction = "initiate_conversation" ->
             caseInitiate(prev, cur, params, thought, convId)
      [] updateAction = "continue_conversation" -> caseContinue(prev, cur, params, thought)
      [] updateAction = "disengage_conversation" -> caseDisengage(prev, cur, params, thought)
      [] updateAction = "think" -> CaseResult(prev, cur, "thinking", thought)
      [] OTHER -> CaseResult(prev, cur, "idle", thought)

\* A delay that is not clamped.
clampedDelay_NoClamp(cur, params) == ParamOr(params, "duration", cur.settings.rateLimit)

\* Math.min(10000, Math.max(100, updateParams?.duration ?? rateLimit))
clampedDelay(cur, params) ==
    Min(MaxDelay, Max(MinDelay, ParamOr(params, "duration", cur.settings.rateLimit)))

\* A stored currentAction that keeps idle.
finalActionString_KeepsIdle(action) == IF action = "thinking" THEN Undefined ELSE action

\* Stored currentAction: undefined for idle and thinking.
finalActionString(action) ==
    IF action = "idle" \/ action = "thinking" THEN Undefined ELSE action

\* A final update that writes the deciding avatar's thought to every avatar.
resolveAvatar_ThoughtForAll(prev, avatarIndex, updateAction, params, thought, convId) ==
    LET cur == prev.avatars[avatarIndex]
        r == switchAction(prev, cur, updateAction, params, thought, convId)
        nextAvatars ==
            [i \in DOMAIN r.avatars |->
               IF i = avatarIndex
               THEN [r.avatars[i] EXCEPT
                       !.position = r.position,
                       !.orientation = r.orientation,
                       !.currentAction = finalActionString(r.action),
                       !.conversationTarget = r.conversationTarget,
                       !.thought = r.thought,
                       !.nextDecisionTime = clampedDelay(cur, params)]
               ELSE [r.avatars[i] EXCEPT !.thought = r.thought]]
    IN [prev EXCEPT !.avatars = nextAvatars, !.conversations = r.conversations]

\* A final update that takes every object off the board.
resolveAvatar_ClearsObjects(prev, avatarIndex, updateAction, params, thought, convId) ==
    LET cur == prev.avatars[avatarIndex]
        r == switchAction(prev, cur, updateAction, params, thought, convId)
        nextAvatars ==
            [i \in DOMAIN r.avatars |->
               IF i = avatarIndex
               THEN [r.avatars[i] EXCEPT
                       !.position = r.position,
                       !.orientation = r.orientation,
                       !.currentAction = finalActionString(r.action),
                       !.conversationTarget = r.conversationTarget,
                       !.thought = r.thought,
                       !.nextDecisionTime = clampedDelay(cur, params)]
               ELSE r.avatars[i]]
    IN [prev EXCEPT !.avatars = nextAvatars, !.conversations = r.conversations,
                    !.objects = << >>]

\* The setState transform of executeDecision for the avatar found at avatarIndex:
\* the switch on the action and the final update of the avatar.
resolveAvatar(prev, avatarIndex, updateAction, params, thought, convId) ==
    LET cur == prev.avatars[avatarIndex]
        r == switchAction(prev, cur, updateAction, params, thought, convId)
        nextAvatars ==
            [i \in DOMAIN r.avatars |->
               IF i = avatarIndex
               THEN [r.avatars[i] EXCEPT
                       !.position = r.position,
                       !.orientation = r.orientation,
                       !.currentAction = finalActionString(r.action),
                       !.conversationTarget = r.conversationTarget,
                       !.thought = r.thought,
                       !.nextDecisionTime = clampedDelay(cur, params)]
               ELSE r.avatars[i]]
    IN [prev EXCEPT !.avatars = nextAvatars, !.conversations = r.conversations]

\* A resolver that drops a decision settling while the simulation is paused.
executeDecisionUpdate_DropWhenPaused(prev, avatarId, updateAction, params, thought, convId) ==
    LET avatarIndex == AvatarIndex(prev.avatars, avatarId)
    IN IF avatarIndex = 0 \/ ~prev.isRunning THEN prev
       ELSE resolveAvatar(prev, avatarIndex, updateAction, params, thought, convId)

\* A resolver that hands the decision of an avatar it does not find to the first
\* avatar of the list.
executeDecisionUpdate_ForMissing(prev, avatarId, updateAction, params, thought, convId) ==
    LET avatarIndex == AvatarIndex(prev.avatars, avatarId)
    IN resolveAvatar(prev, IF avatarIndex = 0 THEN 1 ELSE avatarIndex,
                     updateAction, params, thought, convId)

\* The setState transform of executeDecision: nothing changes unless the avatar
\* is found; isRunning is not consulted.
executeDecisionUpdate(prev, avatarId, updateAction, params, thought, convId) ==
    LET avatarIndex == AvatarIndex(prev.avatars, avatarId)
    IN IF avatarIndex = 0 THEN prev
       ELSE resolveAvatar(prev, avatarIndex, updateAction, params, thought, convId)

\* A fallback decision that carries no duration.
FallbackDecision_NoDuration ==
    [action |-> "idle", parameters |-> << >>,
     thought |-> <<"Error occurred during decision making.">>]

\* The fallback decision of the tick's .catch
FallbackDecision ==
    [action |-> "idle", parameters |-> [duration |-> FallbackDelay],
     thought |-> <<"Error occurred during decision making.">>]

----------------------------------------------------------------------------
(* The decision flow's validation of the model's output (avatarDecisionFlow) *)

\* output.parameters[field] = value
WithParam(params, field, value) ==
    [k \in DOMAIN params \cup {field} |-> IF k = field THEN value ELSE params[k]]

\* The flow's fallback to idle: the action is overwritten before the note is
\* composed, so the note names idle.
switchedToIdle(thought, missing) ==
    [action |-> "idle", parameters |-> [duration |-> SanitizedPause],
     thought |-> Append(thought, <<"(Switched to idle due to missing", missing, "for", "idle">>)]

\* avatarDecisionFlow, from the model's output to the decision it returns:
\* default thought, then the per-action validation of the parameters.
sanitizeDecision(output) ==
    LET thought == IF output.thought = << >> THEN <<"Decided to", output.action>>
                   ELSE output.thought
        params == output.parameters
        kept == [action |-> output.action, parameters |-> params, thought |-> thought]
        missing(f) == ~Has(params, f) \/ params[f] = None
    IN CASE output.action = "turn" ->
              IF ~Has(params, "angle")
              THEN [kept EXCEPT !.parameters = WithParam(params, "angle", 0)]
              ELSE [kept EXCEPT !.parameters =
                      WithParam(params, "angle",
                                RoundDiv(Max(-MaxTurn, Min(MaxTurn, params.angle)), SnapAngle)
                                  * SnapAngle)]
         [] output.action = "move" ->
              IF ~Has(params, "distance")
              THEN [kept EXCEPT !.parameters = WithParam(params, "distance", 0)]
              ELSE [kept EXCEPT !.parameters =
                      WithParam(params, "distance",
                                Max(-MaxMove, Min(MaxMove, params.distance)))]
         [] output.action \in {"interact_object", "initiate_conversation",
                               "disengage_conversation"} ->
              IF missing("targetId") THEN switchedToIdle(thought, "targetId") ELSE kept
         [] output.action = "continue_conversation" ->
              IF missing("targetId") THEN switchedToIdle(thought, "targetId")
              ELSE IF ~Has(params, "message") THEN switchedToIdle(thought, "message")
              ELSE kept
         [] output.action \in {"think", "idle"} ->
              LET duration == IF ~Has(params, "duration") \/ params.duration <= 0
                              THEN SanitizedPause ELSE params.duration
              IN [kept EXCEPT !.parameters =
                    WithParam(params, "duration", Min(MaxPause, Max(MinDelay, duration)))]
         [] OTHER -> kept

----------------------------------------------------------------------------
(* The clock: the simulation loop effect *)

(***************************************************************************)
(* Each run of the loop effect that finds the simulation running creates a *)
(* closure (its own isTicking and tick); runs are numbered 1, 2, ... (gen).*)
(* A run has at most one pending setTimeout(tick), so a timer is named by  *)
(* its gen.  clock holds                                                   *)
(*   simulationLoopRef  the gen whose timer handle the ref holds, 0 = null *)
(*   timers             the gens with a pending setTimeout(tick)           *)
(*   isTicking          gen -> the closure's isTicking flag                *)
(*   gen                the number of closures created so far              *)
(*   live               the gen whose cleanup is registered, 0 = none      *)
(*   delay              the delay of the latest setTimeout(tick, delay)     *)
(* Promise.allSettled's callback runs in the microtasks that follow the    *)
(* last settlement, so it is part of the step that settles the last        *)
(* request of a firing.                                                    *)
(***************************************************************************)
InitClock ==
    [simulationLoopRef |-> 0, timers |-> {}, isTicking |-> [g \in 1..MaxGen |-> FALSE],
     gen |-> 0, live |-> 0, delay |-> 0]

\* clearTimeout(simulationLoopRef.current); simulationLoopRef.current = null
clearLoopRef(c) ==
    IF c.simulationLoopRef # 0
    THEN [c EXCEPT !.timers = @ \ {c.simulationLoopRef}, !.simulationLoopRef = 0]
    ELSE c

\* The cleanup function the previous run of the effect returned, if any.
effectCleanup(c) ==
    IF c.live = 0 THEN c
    ELSE [clearLoopRef(c) EXCEPT !.isTicking[c.live] = FALSE, !.live = 0]

\* Math.max(10, delay / timeScale), with delay the turn duration (1000 when it
\* is 0) in turn-based mode and 50 otherwise; timeScale is a whole multiplier.
tickDelay(simulation) ==
    LET delay == IF simulation.mode = "turn-based"
                 THEN (IF simulation.turnDuration = 0 THEN DefaultTurnDuration
                       ELSE simulation.turnDuration)
                 ELSE PollInterval
    IN Max(MinTickDelay, delay \div simulation.timeScale)

\* The body of the loop effect, run after isRunning changed to `running`.
effectBody(c, running, simulation) ==
    IF ~running THEN clearLoopRef(c)
    ELSE [c EXCEPT !.gen = c.gen + 1, !.live = c.gen + 1,
                   !.timers = @ \cup {c.gen + 1},
                   !.simulationLoopRef = c.gen + 1,
                   !.delay = tickDelay(simulation)]

\* React re-runs the effect when state.isRunning changed.
loopEffect(c, wasRunning, running, simulation) ==
    IF wasRunning = running THEN c ELSE effectBody(effectCleanup(c), running, simulation)

\* A callback that releases the lock and never schedules the next tick.
allSettledThen_NoReschedule(c, g, running, simulation) ==
    [c EXCEPT !.isTicking[g] = FALSE, !.simulationLoopRef = 0]

\* The callback of Promise.allSettled in tick of closure g.
allSettledThen(c, g, running, simulation) ==
    IF running
    THEN [c EXCEPT !.isTicking[g] = FALSE, !.timers = @ \cup {g}, !.simulationLoopRef = g,
                   !.delay = tickDelay(simulation)]
    ELSE [c EXCEPT !.isTicking[g] = FALSE, !.simulationLoopRef = 0]

\* The clock after a request of closure g settled, leaving `rest` in flight.
afterSettle(c, g, rest, running, simulation) ==
    IF g # 0 /\ ~\E r \in rest : r.gen = g THEN allSettledThen(c, g, running, simulation) ELSE c

\* The avatars a firing requests a decision for: now >= (nextDecisionTime || 0).
canAct(avatar) == avatar.nextDecisionTime = 0

\* A firing that requests a decision for every avatar, due or not.
dueAvatars_Everyone(s) == {s.avatars[i].id : i \in DOMAIN s.avatars}

dueAvatars(s) == {s.avatars[i].id : i \in {j \in DOMAIN s.avatars : canAct(s.avatars[j])}}

\* A visibility test that lets an avatar see a point at its own position.
isVisible_SeesOwnPosition(avatar, targetPos) ==
    LET dx == targetPos.x - avatar.position.x
        dy == targetPos.y - avatar.position.y
        radius == avatar.settings.eyesight.radius
    IN /\ Abs(dx) <= radius
       /\ Abs(dy) <= radius
       /\ (dx \div 10) * (dx \div 10) + (dy \div 10) * (dy \div 10)
            <= (radius \div 10) * (radius \div 10)
       /\ (dx \div 10) * Cos1000(avatar.orientation)
            + (dy \div 10) * Sin1000(avatar.orientation) >= 0

\* getSensoryInput's isVisible, for the 180-degree field of view every avatar is
\* created with: the target is within the radius, is not the avatar's own
\* position, and lies within 90 degrees of the avatar's heading on either side.
isVisible(avatar, targetPos) ==
    LET dx == targetPos.x - avatar.position.x
        dy == targetPos.y - avatar.position.y
        radius == avatar.settings.eyesight.radius
    IN /\ ~(dx = 0 /\ dy = 0)
       /\ Abs(dx) <= radius
       /\ Abs(dy) <= radius
       /\ (dx \div 10) * (dx \div 10) + (dy \div 10) * (dy \div 10)
            <= (radius \div 10) * (radius \div 10)
       /\ (dx \div 10) * Cos1000(avatar.orientation)
            + (dy \div 10) * Sin1000(avatar.orientation) >= 0

\* getSensoryInput(...).visibleAvatars, as the set of their ids
visibleAvatars(s, avatar) ==
    {s.avatars[i].id : i \in {j \in DOMAIN s.avatars :
                                /\ s.avatars[j].id # avatar.id
                                /\ isVisible(avatar, s.avatars[j].position)}}

\* getSensoryInput(...).visibleObjects, as the set of their ids
visibleObjects(s, avatar) ==
    {s.objects[i].id : i \in {j \in DOMAIN s.objects : isVisible(avatar, s.objects[j].position)}}

\* dx * dx + dy * dy of isVisible, in squares of 1/100 of a unit, for a target
\* within the radius on both axes.
squaredDistance(avatar, targetPos) ==
    LET dx == targetPos.x - avatar.position.x
        dy == targetPos.y - avatar.position.y
    IN (dx \div 10) * (dx \div 10) + (dy \div 10) * (dy \div 10)

\* Math.round(Math.sqrt(sq)) in whole units, for sq in squares of 1/100 of a unit.
roundedRoot(sq) ==
    CHOOSE n \in 0..((2 * MaxRadius) \div 1000) :
        /\ 4 * sq < (2 * n + 1) * (2 * n + 1) * 10000
        /\ n = 0 \/ (2 * n - 1) * (2 * n - 1) * 10000 <= 4 * sq

\* pointsToCheck: the four corners of an obstacle and its centre.
pointsToCheck(obs) ==
    << obs.position,
       [x |-> obs.position.x + obs.size.x, y |-> obs.position.y],
       [x |-> obs.position.x, y |-> obs.position.y + obs.size.y],
       [x |-> obs.position.x + obs.size.x, y |-> obs.position.y + obs.size.y],
       [x |-> obs.position.x + obs.size.x \div 2, y |-> obs.position.y + obs.size.y \div 2] >>

\* getSensoryInput(...).visibleObstacles: the obstacles with a visible point,
\* each with the rounded distance of its closest visible point.
visibleObstacles(s, avatar) ==
    LET seen(obs) == {k \in 1..5 : isVisible(avatar, pointsToCheck(obs)[k])}
        closestVisibleDist(obs) ==
            LET k == CHOOSE k \in seen(obs) :
                        \A m \in seen(obs) :
                            squaredDistance(avatar, pointsToCheck(obs)[k])
                                <= squaredDistance(avatar, pointsToCheck(obs)[m])
            IN squaredDistance(avatar, pointsToCheck(obs)[k])
    IN {[id |-> s.obstacles[i].id,
         distance |-> roundedRoot(closestVisibleDist(s.obstacles[i]))] :
            i \in {j \in DOMAIN s.obstacles : seen(s.obstacles[j]) # {}}}

\* getSensoryInput: what the avatar a sees.
getSensoryInput(s, a) ==
    LET avatar == s.avatars[AvatarIndex(s.avatars, a)]
    IN [avatar |-> a,
        visibleAvatars |-> visibleAvatars(s, avatar),
        visibleObjects |-> visibleObjects(s, avatar),
        visibleObstacles |-> visibleObstacles(s, avatar)]

\* An action list that keeps interact_object for an avatar that is conversing.
availableActions_InteractWhileConversing(avatar, seenAvatars, seenObjects) ==
    LET conversing == avatar.conversationTarget # None
        base == {"turn", "move", "interact_object", "think", "idle"}
        pushed == base
                  \cup (IF seenAvatars # {} /\ ~conversing
                        THEN {"initiate_conversation"} ELSE {})
                  \cup (IF conversing
                        THEN {"continue_conversation", "disengage_conversation"} ELSE {})
        noInteract == IF seenObjects = {} THEN pushed \ {"interact_object"} ELSE pushed
    IN noInteract

\* tick, step 2: the actions offered to an avatar, built by the pushes and the
\* filters of the code in their order.
availableActions(avatar, seenAvatars, seenObjects) ==
    LET conversing == avatar.conversationTarget # None
        base == {"turn", "move", "interact_object", "think", "idle"}
        pushed == base
                  \cup (IF seenAvatars # {} /\ ~conversing
                        THEN {"initiate_conversation"} ELSE {})
                  \cup (IF conversing
                        THEN {"continue_conversation", "disengage_conversation"} ELSE {})
        noInteract == IF seenObjects = {} \/ conversing
                      THEN pushed \ {"interact_object"} ELSE pushed
        noInitiate == IF conversing THEN noInteract \ {"initiate_conversation"} ELSE noInteract
        noContinue == IF ~conversing
                      THEN noInitiate \ {"continue_conversation", "disengage_conversation"}
                      ELSE noInitiate
    IN noContinue

\* decisionInput.availableActions for avatar a of state s
decisionInput(s, a) ==
    LET avatar == s.avatars[AvatarIndex(s.avatars, a)]
    IN availableActions(avatar, visibleAvatars(s, avatar), visibleObjects(s, avatar))

\* A decision requested for an avatar by firing g (0: by no firing), with the
\* actions it was offered.
Request(avatarId, g, offered) ==
    [avatar |-> avatarId, gen |-> g, phase |-> "decision", thought |-> << >>,
     availableActions |-> offered]

Op(name, avatarId, what) == [op |-> name, what |-> what]

----------------------------------------------------------------------------
(* Actions *)

Init ==
    /\ state = createInitialState(1)
    /\ nextIdCounter = 1 + IdsPerInitialState
    /\ clock = InitClock
    /\ inflight = {}
    /\ lastOp = Op("init", None, "")

\* toggleSimulation, and the loop effect it triggers
ToggleSimulation ==
    /\ state.isRunning \/ clock.gen < MaxGen
    /\ state' = [state EXCEPT !.isRunning = ~state.isRunning]
    /\ clock' = loopEffect(clock, state.isRunning, ~state.isRunning, state.simulation)
    /\ lastOp' = Op("toggleSimulation", None, IF state.isRunning THEN "pause" ELSE "resume")
    /\ UNCHANGED <<nextIdCounter, inflight>>

\* pauseSimulation: nothing is set unless the simulation is running
PauseSimulation ==
    /\ state.isRunning
    /\ state' = [state EXCEPT !.isRunning = FALSE]
    /\ clock' = loopEffect(clock, state.isRunning, FALSE, state.simulation)
    /\ lastOp' = Op("pauseSimulation", None, "pause")
    /\ UNCHANGED <<nextIdCounter, inflight>>

\* resetSimulation: pauseSimulation(), then setState(createInitialState())
ResetSimulation ==
    /\ nextIdCounter <= MaxIdCounter
    /\ state' = createInitialState(nextIdCounter)
    /\ nextIdCounter' = nextIdCounter + IdsPerInitialState
    /\ clock' = loopEffect(clock, state.isRunning, FALSE, state.simulation)
    /\ lastOp' = Op("resetSimulation", None, "")
    /\ UNCHANGED inflight

\* A new session: the page is loaded again and the load effect reads what the
\* save effect wrote last (saved), nothing (fresh), a state with too few avatars
\* (short) or without its avatar list (no list), or a state stored with another
\* eyesight angle (narrow).
Reload(kind) ==
    /\ kind \in {"saved", "narrow"} \/ nextIdCounter <= MaxIdCounter
    /\ LET saved == SaveProjection(state)
           short == [saved EXCEPT !.avatars = SubSeq(saved.avatars, 1, MinAvatars - 1)]
           noList == [f \in DOMAIN saved \ {"avatars"} |-> saved[f]]
           narrow == [saved EXCEPT !.avatars =
                        [i \in DOMAIN saved.avatars |->
                           [saved.avatars[i] EXCEPT !.settings.eyesight.angle = StoredAngle]]]
           fresh == kind \in {"fresh", "short", "no list"}
       IN /\ state' = IF kind = "fresh" THEN createInitialState(nextIdCounter)
                      ELSE IF kind = "short" THEN loadState(short, nextIdCounter)
                      ELSE IF kind = "no list" THEN loadState(noList, nextIdCounter)
                      ELSE IF kind = "narrow" THEN loadState(narrow, nextIdCounter)
                      ELSE loadState(saved, nextIdCounter)
          /\ nextIdCounter' = IF fresh THEN nextIdCounter + IdsPerInitialState
                              ELSE nextIdCounter
    /\ clock' = [InitClock EXCEPT !.gen = clock.gen]
    /\ inflight' = {}
    /\ lastOp' = Op("load", None, kind)

\* addAvatar
AddAvatar(position, orientation) ==
    /\ Len(state.avatars) < MaxAvatars
    /\ nextIdCounter <= MaxIdCounter
    /\ state' = addAvatar(state, nextIdCounter, position, orientation)
    /\ nextIdCounter' = nextIdCounter + 1
    /\ lastOp' = Op("addAvatar", nextIdCounter, "")
    /\ UNCHANGED <<clock, inflight>>

\* updateSimulationSettings
UpdateSimulationSettings(newSettings) ==
    /\ state' = updateSimulationSettings(state, newSettings)
    /\ state'.simulation # state.simulation
    /\ lastOp' = Op("updateSimulationSettings", None, "")
    /\ UNCHANGED <<nextIdCounter, clock, inflight>>

\* resizeBoard
ResizeBoard(newSize) ==
    /\ state' = resizeBoard(state, newSize)
    /\ lastOp' = Op("resizeBoard", None,
                    IF newSize = state.simulation.boardSize THEN "same size" ELSE "new size")
    /\ UNCHANGED <<nextIdCounter, clock, inflight>>

\* addLog with the next message
AddLog ==
    LET entry == state.simulationLogs[Len(state.simulationLogs)] + 1
    IN /\ entry <= MaxAppends
       /\ state' = addLog(state, entry)
       /\ lastOp' = Op("addLog", None, "")
       /\ UNCHANGED <<nextIdCounter, clock, inflight>>

\* addObject
AddObject(position) ==
    /\ Len(state.objects) < MaxObjects
    /\ nextIdCounter <= MaxIdCounter
    /\ state' = addObject(state, nextIdCounter, position)
    /\ nextIdCounter' = nextIdCounter + 1
    /\ lastOp' = Op("addObject", None, "")
    /\ UNCHANGED <<clock, inflight>>

\* tick's call of getSensoryInput for the avatar a; what it returns is kept as
\* the one input in flight.
GetSensoryInput(a) ==
    /\ a \in Ids(state.avatars)
    /\ inflight' = {getSensoryInput(state, a)}
    /\ lastOp' = Op("getSensoryInput", a, "")
    /\ UNCHANGED <<state, nextIdCounter, clock>>

\* removeAvatar
RemoveAvatar(avatarId) ==
    /\ state' = removeAvatar(state, avatarId)
    /\ lastOp' = Op("removeAvatar", avatarId,
                    IF Len(state.avatars) <= MinAvatars THEN "rejected" ELSE "removed")
    /\ UNCHANGED <<nextIdCounter, clock, inflight>>

\* The setState of executeDecision for request r, and what follows its
\* settlement; no conversation's log grows beyond maxLog messages.
ApplyWithin(maxLog, r, updateAction, params, thought, what) ==
    LET rest == inflight \ {r}
        settle(next, created) ==
            /\ Len(next.conversations) <= MaxConversations
            /\ \A i \in DOMAIN next.conversations :
                  Len(next.conversations[i].messages) <= maxLog
            /\ created => nextIdCounter <= MaxIdCounter
            /\ state' = next
            /\ nextIdCounter' = IF created THEN nextIdCounter + 1 ELSE nextIdCounter
            /\ inflight' = rest
            /\ clock' = afterSettle(clock, r.gen, rest, state.isRunning, next.simulation)
            /\ lastOp' = Op(what, r.avatar,
                            IF r.avatar \in Ids(state.avatars) THEN updateAction
                            ELSE "not found")
        applied(next) == settle(next, Len(next.conversations) > Len(state.conversations))
    IN applied(executeDecisionUpdate(state, r.avatar, updateAction, params, thought,
                                     nextIdCounter))

Apply(r, updateAction, params, thought, what) ==
    ApplyWithin(MaxLog, r, updateAction, params, thought, what)

\* executeDecision(r.avatar, decision) up to its await, or to its end.
Resolve(r, decision, what) ==
    LET thought == initialThought(decision)
        params == decision.parameters
        interacts == decision.action = "interact_object"
    IN IF /\ interacts
          /\ ParamOr(params, "targetId", None) \in Ids(state.objects)
          /\ r.avatar \in Ids(state.avatars)
       THEN /\ inflight' = (inflight \ {r}) \cup {[r EXCEPT !.phase = "interaction"]}
            /\ lastOp' = Op(what, r.avatar, "interacting")
            /\ UNCHANGED <<state, nextIdCounter, clock>>
       ELSE Apply(r,
                  IF interacts THEN "idle"
                  ELSE IF decision.action = "think" THEN "thinking"
                  ELSE decision.action,
                  IF interacts THEN [duration |-> InteractDelay] ELSE params,
                  IF interacts THEN Annotate(thought, "(Target object not found)")
                  ELSE thought,
                  what)

\* The resolver's entry point called with any decision for any avatar.
ExecuteDecision(avatarId, decision) ==
    /\ ~\E r \in inflight : r.avatar = avatarId /\ r.gen = 0
    /\ Resolve(Request(avatarId, 0, {}), decision, "executeDecision")

\* The n-th message of a conversation that goes on and on.
Texts ==
    <<"hello", "m2", "m3", "m4", "m5", "m6", "m7", "m8", "m9", "m10", "m11", "m12",
      "m13", "m14", "m15", "m16", "m17", "m18", "m19", "m20", "m21", "m22", "m23",
      "m24", "m25">>

TextIndex(text) == CHOOSE n \in DOMAIN Texts : Texts[n] = text

\* executeDecision(avatarId, continue_conversation) toward the avatar's partner
\* with the message that follows the last one of their conversation; the log
\* may fill up to its capacity and beyond.
Say(avatarId) ==
    LET target == state.avatars[AvatarIndex(state.avatars, avatarId)].conversationTarget
        convIndex == ActiveConvIndex(state.conversations, avatarId, target)
        messages == state.conversations[convIndex].messages
        n == TextIndex(messages[Len(messages)].text) + 1
    IN /\ target # None
       /\ convIndex # 0
       /\ n <= MaxTexts
       /\ ApplyWithin(MaxMessages + 1, Request(avatarId, 0, {}), "continue_conversation",
                      [targetId |-> target, message |-> Texts[n]], <<"t">>,
                      "executeDecision")

\* processObjectInteraction settles: the reaction, or its error, becomes the thought.
InteractionSettles(r, ok) ==
    /\ r \in inflight
    /\ r.phase = "interaction"
    /\ Apply(r, "idle", [duration |-> InteractDelay],
             IF ok THEN <<"Interacted. Reaction">>
             ELSE <<"Interacted. Failed to process reaction">>,
             "interaction")

\* A pending setTimeout(tick) of closure g fires.
Tick(g) ==
    /\ g \in clock.timers
    /\ LET c == [clock EXCEPT !.timers = @ \ {g}]
           due == dueAvatars(state)
       IN IF c.isTicking[g] \/ ~state.isRunning
          THEN /\ clock' = [c EXCEPT !.simulationLoopRef = 0]
               /\ inflight' = inflight
               /\ lastOp' = Op("tick", None, "stopped")
          ELSE /\ inflight' = inflight \cup {Request(a, g, decisionInput(state, a)) : a \in due}
               /\ clock' = IF due = {} THEN allSettledThen(c, g, state.isRunning, state.simulation)
                           ELSE [c EXCEPT !.isTicking[g] = TRUE]
               /\ lastOp' = Op("tick", None, IF due = {} THEN "none due" ELSE "dispatched")
    /\ UNCHANGED <<state, nextIdCounter>>

\* runAvatarDecisionFlow fulfils request r with a decision.
Fulfil(r, decision) ==
    /\ r \in inflight
    /\ r.phase = "decision"
    /\ Resolve(r, decision, "fulfilled")

\* The model answers request r with output: the flow validates it and tick
\* hands the result to executeDecision.
Answer(r, output) == Fulfil(r, sanitizeDecision(output))

\* runAvatarDecisionFlow rejects request r: the fallback decision is executed.
Reject(r) ==
    /\ r \in inflight
    /\ r.phase = "decision"
    /\ Resolve(r, FallbackDecision, "rejected")

\* TimeStep milliseconds pass.
Advance ==
    /\ \E i \in DOMAIN state.avatars : state.avatars[i].nextDecisionTime > 0
    /\ state' = [state EXCEPT !.avatars =
                    [i \in DOMAIN state.avatars |->
                       [state.avatars[i] EXCEPT !.nextDecisionTime = Max(0, @ - TimeStep)]]]
    /\ lastOp' = Op("advance", None, "")
    /\ UNCHANGED <<nextIdCounter, clock, inflight>>

----------------------------------------------------------------------------
(* Inputs *)

Decision(action, parameters, thought) ==
    [action |-> action, parameters |-> parameters, thought |-> thought]

NoParams == << >>

\* The ids a decision may name: every avatar, and one id that names none.
BogusId == IdsPerInitialState

TargetIds(s) == Ids(s.avatars) \cup {BogusId}

\* Decisions about conversations, with right, wrong and missing parameters.
ConversationDecisions(s) ==
    {Decision("initiate_conversation", [targetId |-> t, message |-> "hello"], <<"t">>) :
        t \in TargetIds(s)}
    \cup {Decision("continue_conversation", [targetId |-> t, message |-> "reply"], <<"t">>) :
        t \in Ids(s.avatars)}
    \cup {Decision("disengage_conversation", [targetId |-> t], <<"t">>) : t \in Ids(s.avatars)}
    \cup {Decision("initiate_conversation", [message |-> "hello"], <<"t">>),
          Decision("continue_conversation", NoParams, <<"t">>),
          Decision("disengage_conversation", NoParams, <<"t">>)}

PlainDecisions ==
    {Decision("idle", NoParams, <<"t">>)}

SpawnPositions == {[x |-> 250000, y |-> 50000]}
SpawnOrientations == {90}

---------------------------------------------------------------------------------------------------------------------------------------------------
(* Spec: the avatar list under the user's mutations and well-formed decisions *)

WorldDecisions(s) ==
    {Decision("initiate_conversation", [targetId |-> t, message |-> "hello"], <<"t">>) :
        t \in Ids(s.avatars)}
    \cup {Decision("disengage_conversation", [targetId |-> t], <<"t">>) : t \in Ids(s.avatars)}
    \cup {Decision("idle", NoParams, <<"t">>)}

Next ==
    \/ \E p \in SpawnPositions, o \in SpawnOrientations : AddAvatar(p, o)
    \/ \E a \in Ids(state.avatars) : RemoveAvatar(a)
    \/ ResetSimulation
    \/ \E k \in {"saved", "fresh", "short"} : Reload(k)
    \/ \E a \in Ids(state.avatars), d \in WorldDecisions(state) : ExecuteDecision(a, d)

Spec == Init /\ [][Next]_vars

----------------------------------------------------------------------------
(* DecisionSpec: the conversation protocol under decisions with right, wrong
   and missing parameters.  ConvSpec: the same, with reloads of the saved world *)

NextDecision ==
    \E a \in Ids(state.avatars), d \in ConversationDecisions(state) \cup PlainDecisions :
        ExecuteDecision(a, d)

DecisionSpec == Init /\ [][NextDecision]_vars

NextConv ==
    \/ NextDecision
    \/ Reload("saved")

ConvSpec == Init /\ [][NextConv]_vars

---------------------------------------------------------------------------------------------------------------------------------------------------
(* ClockSpec: the simulation loop under toggles, oracle settlements in any
   order and the passing of time *)

ClockDecisions(s, avatarId) ==
    {Decision("idle", NoParams, <<"t">>)}
    \cup {Decision("initiate_conversation", [targetId |-> t, message |-> "hello"], <<"t">>) :
            t \in Ids(s.avatars) \ {avatarId}}

NextClock ==
    \/ ToggleSimulation
    \/ PauseSimulation
    \/ \E g \in clock.timers : Tick(g)
    \/ \E r \in inflight : \E d \in ClockDecisions(state, r.avatar) : Fulfil(r, d)
    \/ \E r \in inflight : Reject(r)
    \/ Advance

ClockSpec == Init /\ [][NextClock]_vars

----------------------------------------------------------------------------
(* LiveSpec: the simulation is started and stays running; timers fire, every
   request settles one way or the other, and time passes *)

StartSimulation == ~state.isRunning /\ ToggleSimulation

Settle(avatarId) ==
    \E r \in inflight :
        /\ r.avatar = avatarId
        /\ \/ \E d \in ClockDecisions(state, avatarId) : Fulfil(r, d)
           \/ Reject(r)

NextLive ==
    \/ StartSimulation
    \/ \E g \in clock.timers : Tick(g)
    \/ \E a \in Ids(state.avatars) : Settle(a)
    \/ Advance

LiveSpec ==
    /\ Init
    /\ [][NextLive]_vars
    /\ WF_vars(\E g \in 1..MaxGen : Tick(g))
    /\ \A a \in 1..MaxIdCounter : WF_vars(Settle(a))
    /\ WF_vars(Advance)

----------------------------------------------------------------------------
(* OfferSpec: the loop's firings among avatars and objects placed in front of,
   behind and out of sight of one another, with avatars entering and leaving
   conversations *)

OfferSpawnPositions == {[x |-> 120000, y |-> 50000]}

OfferSpawnOrientations == {180}

OfferObjectPositions == {[x |-> 100000, y |-> 50000], [x |-> 20000, y |-> 50000]}

OfferDecisions(s, avatarId) ==
    {Decision("idle", NoParams, <<"t">>)}
    \cup {Decision("initiate_conversation", [targetId |-> t, message |-> "hello"], <<"t">>) :
            t \in Ids(s.avatars) \ {avatarId}}
    \cup {Decision("disengage_conversation", [targetId |-> t], <<"t">>) :
            t \in Ids(s.avatars) \ {avatarId}}

NextOffer ==
    \/ \E p \in OfferSpawnPositions, o \in OfferSpawnOrientations : AddAvatar(p, o)
    \/ \E p \in OfferObjectPositions : AddObject(p)
    \/ StartSimulation
    \/ \E g \in clock.timers : Tick(g)
    \/ \E r \in inflight : \E d \in OfferDecisions(state, r.avatar) : Fulfil(r, d)
    \/ Advance

OfferSpec == Init /\ [][NextOffer]_vars

----------------------------------------------------------------------------
(* DelaySpec: the loop started, paused and fired while the user changes the
   mode, the turn duration and the speed multiplier *)

SettingsUpdates ==
    {[mode |-> "turn-based"], [mode |-> "time-based"],
     [timeScale |-> 1], [timeScale |-> 2], [timeScale |-> 10],
     [turnDuration |-> 1000], [turnDuration |-> 2000]}

NextDelay ==
    \/ \E n \in SettingsUpdates : UpdateSimulationSettings(n)
    \/ ToggleSimulation
    \/ \E g \in clock.timers : Tick(g)
    \/ \E r \in inflight : Fulfil(r, Decision("idle", NoParams, <<"t">>))
    \/ Advance

DelaySpec == Init /\ [][NextDelay]_vars

----------------------------------------------------------------------------
(* ResizeSpec: the board resized to its own size, to a smaller and to a
   narrower, taller one, with avatars that back up to an edge and an object
   placed next to one *)

ResizeObjectPositions == {[x |-> 2000, y |-> 50000]}

BoardSizes == {[width |-> 500000, height |-> 500000], [width |-> 100000, height |-> 100000],
               [width |-> 50000, height |-> 600000]}

ResizeDecisions == {Decision("move", [distance |-> -15], <<"t">>)}

NextResize ==
    \/ \E p \in ResizeObjectPositions : AddObject(p)
    \/ \E a \in dueAvatars(state), d \in ResizeDecisions : ExecuteDecision(a, d)
    \/ Advance
    \/ \E n \in BoardSizes : ResizeBoard(n)

ResizeSpec == Init /\ [][NextResize]_vars

----------------------------------------------------------------------------
(* LogSpec: messages appended to the event log one after the other.  The
   entries the other operations write are not part of their actions; this
   specification writes to the log through addLog itself. *)

NextLog == AddLog

LogSpec == Init /\ [][NextLog]_vars

----------------------------------------------------------------------------
(* FrameSpec: the first firing of the loop asks for all avatars at once and the
   answers (turns, moves, conversation actions, idling, or a rejection) come
   back in any order; later firings find no avatar due *)

FrameDecisions(s, avatarId) ==
    {Decision("idle", NoParams, <<"t">>),
     Decision("turn", [angle |-> 30], <<"t">>),
     Decision("move", [distance |-> 10], <<"t">>)}
    \cup {Decision(action, [targetId |-> t, message |-> "hello"], <<"t">>) :
            action \in {"initiate_conversation", "continue_conversation",
                        "disengage_conversation"},
            t \in Ids(s.avatars) \ {avatarId}}

NextFrame ==
    \/ StartSimulation
    \/ \E g \in clock.timers : Tick(g)
    \/ \E r \in inflight : \E d \in FrameDecisions(state, r.avatar) : Fulfil(r, d)
    \/ \E r \in inflight : Reject(r)

FrameSpec == Init /\ [][NextFrame]_vars

----------------------------------------------------------------------------
(* LoadSpec: sessions that start the simulation, apply conversation decisions
   and add avatars, each followed by a reload of what was stored, or of a
   damaged or older store *)

LoadKinds == {"saved", "fresh", "short", "no list", "narrow"}

LoadSpawnPositions == {[x |-> 250000, y |-> 50000]}

LoadSpawnOrientations == {90}

NextLoad ==
    \/ ToggleSimulation
    \/ \E p \in LoadSpawnPositions, o \in LoadSpawnOrientations : AddAvatar(p, o)
    \/ \E a \in dueAvatars(state) : \E d \in ConversationDecisions(state) : ExecuteDecision(a, d)
    \/ \E k \in LoadKinds : Reload(k)

LoadSpec == Init /\ [][NextLoad]_vars

----------------------------------------------------------------------------
(* FlowSpec: the first firing of the loop, answered by the model with outputs
   whose parameters are present, missing, in range and out of range, each
   validated by the flow before it reaches the resolver *)

RawOutputs(s, avatarId) ==
    {Decision("turn", [angle |-> g], <<"t">>) : g \in {47, 400}}
    \cup {Decision("move", [distance |-> n], <<"t">>) : n \in {10, 20}}
    \cup {Decision("idle", [duration |-> n], <<"t">>) : n \in {50, 3000, 20000}}
    \cup {Decision(action, NoParams, <<"t">>) :
            action \in {"turn", "move", "idle", "initiate_conversation"}}
    \cup {Decision("initiate_conversation", [targetId |-> t, message |-> "hello"], <<"t">>) :
            t \in Ids(s.avatars) \ {avatarId}}
    \cup {Decision("idle", [duration |-> 3000], << >>)}

NextFlow ==
    \/ StartSimulation
    \/ \E g \in clock.timers : Tick(g)
    \/ \E r \in inflight : \E o \in RawOutputs(state, r.avatar) : Answer(r, o)

FlowSpec == Init /\ [][NextFlow]_vars

----------------------------------------------------------------------------
(* TalkSpec: one conversation that goes on until its log has been full for a
   while; the partners speak in turn, each when it is due *)

\* The author of the latest message of the latest conversation, if any.
LastAuthor(s) ==
    IF s.conversations = << >> THEN None
    ELSE LET messages == s.conversations[Len(s.conversations)].messages
         IN messages[Len(messages)].avatarId

NextTalk ==
    \/ \E a \in dueAvatars(state) : \E b \in Ids(state.avatars) \ {a} :
          ExecuteDecision(a, Decision("initiate_conversation",
                                      [targetId |-> b, message |-> Texts[1]], <<"t">>))
    \/ \E a \in dueAvatars(state) : a # LastAuthor(state) /\ Say(a)
    \/ Advance

TalkSpec == Init /\ [][NextTalk]_vars

----------------------------------------------------------------------------
(* ResolverSpec: the resolver handed one decision per due avatar, with present,
   missing, in-range and out-of-range parameters, among avatars spawned next
   to the board's edge, an obstacle and another avatar *)

ResolverSpawnPositions ==
    {[x |-> 250000, y |-> 50000], [x |-> 66000, y |-> 50000],
     [x |-> 495000, y |-> 250000], [x |-> 95000, y |-> 150000]}

ResolverSpawnOrientations == {0, 180}

TurnAngles == {47, 45, -45, 400, -750}

MoveDistances == {10, 20, -20}

Durations == {50, 20000}

ResolverDecisions(s) ==
    {Decision("turn", [angle |-> g], <<"t">>) : g \in TurnAngles}
    \cup {Decision("move", [distance |-> d], <<"t">>) : d \in MoveDistances}
    \cup {Decision("idle", [duration |-> d], <<"t">>) : d \in Durations}
    \cup {Decision("interact_object", [targetId |-> o], <<"t">>) :
            o \in Ids(s.objects) \cup {BogusId}}
    \cup {Decision("turn", NoParams, <<"t">>), Decision("move", NoParams, <<"t">>),
          Decision("idle", NoParams, <<"t">>), Decision("think", NoParams, << >>)}

NextResolver ==
    \/ \E p \in ResolverSpawnPositions, o \in ResolverSpawnOrientations : AddAvatar(p, o)
    \/ \E a \in dueAvatars(state), d \in ResolverDecisions(state) : ExecuteDecision(a, d)
    \/ \E r \in inflight, ok \in BOOLEAN : InteractionSettles(r, ok)

ResolverSpec == Init /\ [][NextResolver]_vars

----------------------------------------------------------------------------
(* RestSpec: the resolver handed decisions to pause (idle, think, an action it
   does not know), with and without thought and duration, by avatars that turn
   and converse *)

UnknownAction == "dance"

RestActions == {"idle", "think", UnknownAction}

RestDecisions(s, avatarId) ==
    {Decision(act, NoParams, <<"t">>) : act \in RestActions}
    \cup {Decision(act, [duration |-> d], <<"t">>) : act \in RestActions, d \in Durations}
    \cup {Decision("think", NoParams, << >>),
          Decision("think", NoParams, <<"why">>),
          Decision("turn", [angle |-> 90], <<"t">>)}
    \cup {Decision("initiate_conversation", [targetId |-> t, message |-> "hello"], <<"t">>) :
            t \in Ids(s.avatars) \ {avatarId}}

NextRest ==
    \E a \in Ids(state.avatars) : \E d \in RestDecisions(state, a) : ExecuteDecision(a, d)

RestSpec == Init /\ [][NextRest]_vars

----------------------------------------------------------------------------
(* SightSpec: what avatars see, among avatars spawned at the centre of an
   obstacle, beside it, on an object and beyond it, facing the four ways, and
   objects added under, before and behind an avatar *)

SightSpawnPositions ==
    {[x |-> 105000, y |-> 175000], [x |-> 50000, y |-> 150000],
     [x |-> 250000, y |-> 250000], [x |-> 160000, y |-> 175000]}

SightSpawnOrientations == {0, 90, 180, 270}

SightObjectPositions ==
    {[x |-> 50000, y |-> 50000], [x |-> 50000, y |-> 120000], [x |-> 20000, y |-> 50000]}

NextSight ==
    \/ \E p \in SightSpawnPositions, o \in SightSpawnOrientations : AddAvatar(p, o)
    \/ \E p \in SightObjectPositions : AddObject(p)
    \/ \E a \in Ids(state.avatars) : GetSensoryInput(a)

SightSpec == Init /\ [][NextSight]_vars

----------------------------------------------------------------------------
(* StaleSpec: decisions that settle after the user removed their avatar or
   reset the world *)

StaleDecisions(s, avatarId) ==
    {Decision("idle", NoParams, <<"t">>)}
    \cup {Decision("initiate_conversation", [targetId |-> t, message |-> "hello"], <<"t">>) :
            t \in Ids(s.avatars) \ {avatarId}}
    \cup {Decision("interact_object", [targetId |-> o], <<"t">>) : o \in Ids(s.objects)}

NextStale ==
    \/ \E p \in SpawnPositions, o \in SpawnOrientations : AddAvatar(p, o)
    \/ \E a \in Ids(state.avatars) : RemoveAvatar(a)
    \/ ResetSimulation
    \/ StartSimulation
    \/ \E g \in clock.timers : Tick(g)
    \/ \E r \in inflight : \E d \in StaleDecisions(state, r.avatar) : Fulfil(r, d)
    \/ \E r \in inflight : Reject(r)
    \/ \E r \in inflight, ok \in BOOLEAN : InteractionSettles(r, ok)

StaleSpec == Init /\ [][NextStale]_vars

----------------------------------------------------------------------------
(* EffectSpec: the loop under toggles, pauses, resets and reloads, with
   decisions of every kind settling in any order *)

EffectDecisions(s, avatarId) ==
    {Decision("idle", NoParams, <<"t">>),
     Decision("think", NoParams, <<"t">>),
     Decision("move", [distance |-> 10], <<"t">>),
     Decision("turn", [angle |-> 30], <<"t">>)}
    \cup {Decision("interact_object", [targetId |-> o], <<"t">>) :
            o \in Ids(s.objects) \cup {BogusId}}
    \cup {Decision("initiate_conversation", [targetId |-> t, message |-> "hello"], <<"t">>) :
            t \in Ids(s.avatars) \ {avatarId}}

NextEffect ==
    \/ ToggleSimulation
    \/ PauseSimulation
    \/ ResetSimulation
    \/ Reload("saved")
    \/ \E g \in clock.timers : Tick(g)
    \/ \E r \in inflight : \E d \in EffectDecisions(state, r.avatar) : Fulfil(r, d)
    \/ \E r \in inflight : Reject(r)
    \/ \E r \in inflight, ok \in BOOLEAN : InteractionSettles(r, ok)

EffectSpec == Init /\ [][NextEffect]_vars

----------------------------------------------------------------------------
(* RaceSpec: the requests of one firing answered with initiate_conversation
   decisions that compete for an avatar, settling in any order *)

RaceDecisions(s, avatarId) ==
    {Decision("initiate_conversation", [targetId |-> t, message |-> "hello"], <<"t">>) :
        t \in Ids(s.avatars) \ {avatarId}}
    \cup {Decision("idle", NoParams, <<"t">>)}

NextRace ==
    \/ \E p \in SpawnPositions, o \in SpawnOrientations : AddAvatar(p, o)
    \/ StartSimulation
    \/ \E g \in clock.timers : Tick(g)
    \/ \E r \in inflight : \E d \in RaceDecisions(state, r.avatar) : Fulfil(r, d)

RaceSpec == Init /\ [][NextRace]_vars

----------------------------------------------------------------------------
(* EndedSpec: conversations opened, continued and ended, and opened again by
   the same pair, with avatars added and removed *)

EndedDecisions(s, avatarId) ==
    {Decision(act, [targetId |-> t, message |-> "hello"], <<"t">>) :
        act \in {"initiate_conversation", "continue_conversation"},
        t \in Ids(s.avatars) \ {avatarId}}
    \cup {Decision("disengage_conversation", [targetId |-> t], <<"t">>) :
            t \in Ids(s.avatars) \ {avatarId}}

NextEnded ==
    \/ \E p \in SpawnPositions, o \in SpawnOrientations : AddAvatar(p, o)
    \/ \E a \in Ids(state.avatars) : RemoveAvatar(a)
    \/ \E a \in Ids(state.avatars) : \E d \in EndedDecisions(state, a) : ExecuteDecision(a, d)

EndedSpec == Init /\ [][NextEnded]_vars

----------------------------------------------------------------------------
(* BoundsSpec: avatars added next to the edges of the board, moving forward
   and backward, and removed, on a board that is shrunk and stretched *)

BoundsSpawnPositions ==
    {[x |-> 495000, y |-> 250000], [x |-> 60000, y |-> 90000], [x |-> 40000, y |-> 550000]}

BoundsSpawnOrientations == {0}

BoundsDecisions ==
    {Decision("move", [distance |-> 15], <<"t">>), Decision("move", [distance |-> -15], <<"t">>)}

\* addAvatar, with the position it draws on the board as it is:
\* Math.random() * boardSize.width, Math.random() * boardSize.height
AddAvatarOnBoard(position, orientation) ==
    /\ position.x < state.simulation.boardSize.width
    /\ position.y < state.simulation.boardSize.height
    /\ AddAvatar(position, orientation)

NextBounds ==
    \/ \E p \in BoundsSpawnPositions, o \in BoundsSpawnOrientations : AddAvatarOnBoard(p, o)
    \/ \E a \in Ids(state.avatars) : RemoveAvatar(a)
    \/ \E n \in BoardSizes : ResizeBoard(n)
    \/ \E a \in dueAvatars(state), d \in BoundsDecisions : ExecuteDecision(a, d)

BoundsSpec == Init /\ [][NextBounds]_vars

-----
(* Shorthands for the claims *)

AvatarOf(s, id) == s.avatars[AvatarIndex(s.avatars, id)]

ActiveConversations(s, a, b) ==
    {k \in DOMAIN s.conversations :
        /\ ~s.conversations[k].endTime
        /\ Includes(s.conversations[k], a)
        /\ Includes(s.conversations[k], b)}

----------------------------------------------------------------------------
(* C1 *)

\* C1: in every reachable world the avatar list holds at least 2 avatars, and a
\* removeAvatar called while exactly 2 avatars exist leaves the avatars and the
\* conversations as they were.
C1_AvatarFloor ==
    /\ [](Len(state.avatars) >= MinAvatars)
    /\ [][(lastOp'.op = "removeAvatar" /\ Len(state.avatars) = MinAvatars)
            => (state'.avatars = state.avatars
                /\ state'.conversations = state.conversations)]_vars

\* A removal was rejected at the floor, in a world that had held a third avatar
\* and holds an active conversation.
C1_Witness ==
    /\ lastOp = Op("removeAvatar", None, "rejected")
    /\ Len(state.avatars) = MinAvatars
    /\ nextIdCounter > 1 + IdsPerInitialState
    /\ \E k \in DOMAIN state.conversations : ~state.conversations[k].endTime

----------------------------------------------------------------------------
(* C2, C3, C4: the conversation invariants *)

\* C2: every avatar X with a conversationTarget Y: Y is a live avatar, Y's
\* conversationTarget is X, and exactly one conversation without an end time has
\* both X and Y as participants.
C2_PartnerInvariant ==
    \A i \in DOMAIN state.avatars :
        LET x == state.avatars[i]
            y == x.conversationTarget
        IN y # None =>
             /\ y \in Ids(state.avatars)
             /\ AvatarOf(state, y).conversationTarget = x.id
             /\ Cardinality(ActiveConversations(state, x.id, y)) = 1

\* C3: every conversation with no end time has two live participants whose
\* conversationTargets are each other.
C3_ActiveConversationInvariant ==
    \A k \in DOMAIN state.conversations :
        LET c == state.conversations[k]
            a == c.participants[1]
            b == c.participants[2]
        IN ~c.endTime =>
             /\ a \in Ids(state.avatars) /\ b \in Ids(state.avatars)
             /\ AvatarOf(state, a).conversationTarget = b
             /\ AvatarOf(state, b).conversationTarget = a

\* C4: no unordered pair of avatar ids has two conversations without an end time.
C4_OneActivePerPair ==
    \A j, k \in DOMAIN state.conversations :
        LET c == state.conversations[j]
            d == state.conversations[k]
        IN (j # k /\ ~c.endTime /\ ~d.endTime)
             => {c.participants[1], c.participants[2]}
                  # {d.participants[1], d.participants[2]}

----------------------------------------------------------------------------
(* C5, C6, C7: the loop across pause and resume *)

\* The runs of the loop effect that have a firing pending (a timer) or executing
\* (requests it dispatched are in flight).
Firings == {g \in 1..MaxGen : g \in clock.timers \/ \E r \in inflight : r.gen = g}

\* C5: while a request dispatched by a tick firing is in flight (its decision or
\* its nested interaction not yet handed to the resolver), no tick firing is
\* scheduled.
C5_NoFiringScheduledBeforeSettlement ==
    (\E r \in inflight : r.gen # 0) => clock.timers = {}

\* C6: across any sequence of pauses and resumes at most one tick firing is
\* pending or executing.
C6_SingleLoop == Cardinality(Firings) <= 1

\* C7: while the simulation is paused no tick firing is scheduled, and no step
\* taken while paused dispatches a decision request.
C7_PausedIsQuiet ==
    /\ [](~state.isRunning => clock.timers = {})
    /\ [][(~state.isRunning /\ ~state'.isRunning) => inflight' \subseteq inflight]_vars

----------------------------------------------------------------------------
(* C8, C9: settlements *)

\* C8: a request of a tick that settles (fulfilled or rejected) while the
\* simulation is paused is applied by the resolver: its avatar, due when the
\* request was dispatched, gets a next decision time within the clamp.
C8_AppliedWhilePaused ==
    [][\A r \in inflight :
         (/\ ~state.isRunning
          /\ r \notin inflight'
          /\ r.avatar \in Ids(state.avatars)
          /\ lastOp'.op \in {"fulfilled", "rejected"})
         => LET x == AvatarOf(state', r.avatar)
            IN /\ x.nextDecisionTime >= MinDelay
               /\ x.nextDecisionTime <= MaxDelay]_vars

\* A fulfilled initiate_conversation was applied while the simulation was paused.
C8_Witness ==
    /\ ~state.isRunning
    /\ lastOp = Op("fulfilled", None, "initiate_conversation")
    /\ \E i \in DOMAIN state.avatars :
          /\ state.avatars[i].conversationTarget # None
          /\ state.avatars[i].nextDecisionTime >= MinDelay

\* C9: the step in which the oracle's rejection of a request for avatar X is
\* handled leaves X with no currentAction, a next decision time 1000 ms ahead,
\* the error thought, and the position, orientation and conversationTarget it had.
C9_FallbackOnRejection ==
    [][\A r \in inflight :
         (/\ r \notin inflight'
          /\ r.avatar \in Ids(state.avatars)
          /\ lastOp'.op = "rejected")
         => LET old == AvatarOf(state, r.avatar)
                new == AvatarOf(state', r.avatar)
            IN /\ new.currentAction = Undefined
               /\ new.nextDecisionTime = 1000
               /\ new.thought = <<"Error occurred during decision making.">>
               /\ new.position = old.position
               /\ new.orientation = old.orientation
               /\ new.conversationTarget = old.conversationTarget]_vars

\* A rejection was handled for an avatar that is in a conversation.
C9_Witness ==
    /\ lastOp = Op("rejected", None, "idle")
    /\ \E i \in DOMAIN state.avatars :
          /\ state.avatars[i].conversationTarget # None
          /\ state.avatars[i].currentAction = Undefined
          /\ state.avatars[i].nextDecisionTime = 1000
          /\ state.avatars[i].thought = <<"Error occurred during decision making.">>

----------------------------------------------------------------------------
(* C10 *)

Requested(a) == \E r \in inflight : r.avatar = a /\ r.phase = "decision"

\* C10: once the simulation runs, every avatar of the world is again and again
\* dispatched a decision request (a request for it comes into flight, settles,
\* and another comes into flight), whatever the oracle answers.
C10_DispatchedAgainAndAgain ==
    \A a \in 1..MaxIdCounter :
        [](state.isRunning =>
             /\ <>(a \notin Ids(state.avatars) \/ Requested(a))
             /\ <>(a \notin Ids(state.avatars) \/ ~Requested(a)))

\* A request is in flight for an avatar whose previous request was rejected.
C10_Witness ==
    /\ state.isRunning
    /\ \E a \in Ids(state.avatars) :
          /\ Requested(a)
          /\ AvatarOf(state, a).thought = <<"Error occurred during decision making.">>

----------------------------------------------------------------------------
(* C11 .. C15, C19: the resolver's cases *)

\* The decisions of an action among those the resolver is handed.
DecisionsOf(action) == {d \in ResolverDecisions(state) : d.action = action}

\* The step is executeDecision(a, d) run to its end for the avatar a.
Applies(a, d) ==
    /\ lastOp'.op = "executeDecision"
    /\ lastOp'.what # "interacting"
    /\ AvatarOf(state', a).nextDecisionTime # AvatarOf(state, a).nextDecisionTime
    /\ ExecuteDecision(a, d)

\* The step completes the resolution of an interact_object decision of avatar a:
\* at once when the object is not found, or when the interaction oracle settles.
InteractResolved(a) ==
    \/ \E d \in DecisionsOf("interact_object") : Applies(a, d)
    \/ /\ lastOp'.op = "interaction"
       /\ \E r \in inflight, ok \in BOOLEAN : r.avatar = a /\ InteractionSettles(r, ok)

\* C11: every step that completes the resolution of an interact_object decision
\* of an existing avatar (oracle success, oracle failure, object not found) leaves
\* the avatar with no currentAction and a next decision time 500 ms ahead.
C11_InteractEndsIdle ==
    [][\A a \in Ids(state.avatars) :
         InteractResolved(a)
         => /\ AvatarOf(state', a).currentAction = Undefined
            /\ AvatarOf(state', a).nextDecisionTime = 500]_vars

\* The interaction oracle failed for an avatar and the avatar idles for 500 ms.
C11_Witness ==
    /\ lastOp = Op("interaction", None, "idle")
    /\ \E i \in DOMAIN state.avatars :
          /\ state.avatars[i].thought = <<"Interacted. Failed to process reaction">>
          /\ state.avatars[i].currentAction = Undefined
          /\ state.avatars[i].nextDecisionTime = 500

\* The candidate position of the claims: the position displaced by the distance
\* clamped to [-15, 15] along the orientation; a missing distance is 0.
Candidate(x, d) ==
    LET given == IF "distance" \in DOMAIN d.parameters THEN d.parameters.distance ELSE 0
        dist == IF given > 15 THEN 15 ELSE IF given < -15 THEN -15 ELSE given
    IN [x |-> x.position.x + dist * Cos1000(x.orientation),
        y |-> x.position.y + dist * Sin1000(x.orientation)]

\* dx, dy span a distance below r (all in 1/1000 units).
Within(dx, dy, r) ==
    /\ Abs(dx) < r /\ Abs(dy) < r
    /\ (dx \div 10) * (dx \div 10) + (dy \div 10) * (dy \div 10) < (r \div 10) * (r \div 10)

\* The distance from coordinate p to the interval [lo, hi].
Gap(p, lo, hi) == IF p < lo THEN lo - p ELSE IF p > hi THEN p - hi ELSE 0

\* The candidate c of avatar a is off the board, closer than 8 units to an
\* obstacle's rectangle, or closer than 16 units to another avatar.
Blocked(s, a, c) ==
    \/ c.x < 0 \/ c.x > s.simulation.boardSize.width
    \/ c.y < 0 \/ c.y > s.simulation.boardSize.height
    \/ \E i \in DOMAIN s.obstacles :
          LET o == s.obstacles[i]
          IN Within(Gap(c.x, o.position.x, o.position.x + o.size.x),
                    Gap(c.y, o.position.y, o.position.y + o.size.y), 8000)
    \/ \E i \in DOMAIN s.avatars :
          /\ s.avatars[i].id # a
          /\ Within(c.x - s.avatars[i].position.x, c.y - s.avatars[i].position.y, 16000)

\* C12: a move whose candidate position is off the board, closer than 8 units to
\* an obstacle or closer than 16 units to another avatar, in the state it is
\* applied to, leaves the position as it was and appends "(Movement blocked)" to
\* the thought.
C12_BlockedMoveRejected ==
    [][\A a \in Ids(state.avatars) : \A d \in DecisionsOf("move") :
         (Applies(a, d) /\ Blocked(state, a, Candidate(AvatarOf(state, a), d)))
         => /\ AvatarOf(state', a).position = AvatarOf(state, a).position
            /\ AvatarOf(state', a).thought = Append(d.thought, "(Movement blocked)")]_vars

\* Two avatars 16 units apart were both blocked by each other.
C12_Witness ==
    /\ lastOp = Op("executeDecision", None, "move")
    /\ \E i, k \in DOMAIN state.avatars :
          /\ \A n \in {i, k} : state.avatars[n].thought = <<"t", "(Movement blocked)">>
          /\ state.avatars[i].position = [x |-> 50000, y |-> 50000]
          /\ state.avatars[k].position = [x |-> 66000, y |-> 50000]

\* C13: a move whose candidate position is not blocked puts the avatar exactly
\* there and leaves its orientation; (50,50) at orientation 0 with distance 10
\* becomes (60,50).
C13_FreeMoveReachesCandidate ==
    [][\A a \in Ids(state.avatars) : \A d \in DecisionsOf("move") :
         (Applies(a, d) /\ ~Blocked(state, a, Candidate(AvatarOf(state, a), d)))
         => /\ AvatarOf(state', a).position = Candidate(AvatarOf(state, a), d)
            /\ AvatarOf(state', a).orientation = AvatarOf(state, a).orientation
            /\ (/\ AvatarOf(state, a).position = [x |-> 50000, y |-> 50000]
                /\ AvatarOf(state, a).orientation = 0
                /\ d.parameters = [distance |-> 10])
               => AvatarOf(state', a).position = [x |-> 60000, y |-> 50000]]_vars

\* The avatar that stood at (50,50) moved to (60,50), and another moved the
\* clamped 15 units backwards.
C13_Witness ==
    /\ lastOp = Op("executeDecision", None, "move")
    /\ \E i, j \in DOMAIN state.avatars :
          /\ state.avatars[i].position = [x |-> 60000, y |-> 50000]
          /\ state.avatars[i].thought = <<"t">>
          /\ state.avatars[j].position = [x |-> 465000, y |-> 450000]
          /\ state.avatars[j].thought = <<"t">>

\* The change of orientation the claims ascribe to a turn: the angle (0 when
\* missing) clamped to [-180, 180], then snapped to the nearest multiple of 30,
\* halves going up.
ClampedSnap(d) ==
    LET given == IF "angle" \in DOMAIN d.parameters THEN d.parameters.angle ELSE 0
        clamped == IF given > 180 THEN 180 ELSE IF given < -180 THEN -180 ELSE given
    IN ((2 * clamped + 30) \div 60) * 30

\* C14: a turn changes the orientation by the angle clamped to [-180, 180] and
\* then snapped to a multiple of 30, modulo 360, and leaves the position.
C14_TurnClampsThenSnaps ==
    [][\A a \in Ids(state.avatars) : \A d \in DecisionsOf("turn") :
         Applies(a, d)
         => /\ AvatarOf(state', a).orientation
                 = (AvatarOf(state, a).orientation + ClampedSnap(d)) % 360
            /\ AvatarOf(state', a).position = AvatarOf(state, a).position]_vars

\* C15: every avatar's orientation lies in [0, 360).
C15_OrientationNormalized ==
    \A i \in DOMAIN state.avatars :
        state.avatars[i].orientation >= 0 /\ state.avatars[i].orientation < 360

\* The delay the claims ascribe to a decision: 500 ms after an interaction, else
\* the duration given, else the avatar's rateLimit; clamped to [100, 10000].
ResolvedDelay(x, d) ==
    LET delay == IF d.action = "interact_object" THEN 500
                 ELSE IF "duration" \in DOMAIN d.parameters THEN d.parameters.duration
                 ELSE x.settings.rateLimit
    IN IF delay > 10000 THEN 10000 ELSE IF delay < 100 THEN 100 ELSE delay

\* C19: the step in which a decision is applied for an avatar sets the avatar's
\* next decision time to the duration given, or else its rateLimit, clamped to
\* [100, 10000] ms, counted from the time of application.
C19_NextDecisionTimeClamped ==
    [][\A a \in Ids(state.avatars) : \A d \in ResolverDecisions(state) :
         Applies(a, d)
         => /\ AvatarOf(state', a).nextDecisionTime = ResolvedDelay(AvatarOf(state, a), d)
            /\ AvatarOf(state', a).nextDecisionTime >= 100
            /\ AvatarOf(state', a).nextDecisionTime <= 10000]_vars

\* Decisions were applied with a duration below the clamp, with one above it,
\* and with none (the second avatar's rateLimit).
C19_Witness ==
    /\ lastOp.op = "executeDecision"
    /\ \E i, j \in DOMAIN state.avatars :
          /\ state.avatars[i].nextDecisionTime = 100
          /\ state.avatars[j].nextDecisionTime = 10000
          /\ state.avatars[2].nextDecisionTime = 1500
          /\ state.avatars[2].thought # << >>

----------------------------------------------------------------------------
(* C16, C17, C18: conversations opened, closed, and cut by a removal *)

Initiate(b) == Decision("initiate_conversation", [targetId |-> b, message |-> "hello"], <<"t">>)

Disengage(b) == Decision("disengage_conversation", [targetId |-> b], <<"t">>)

\* C16: when A applies initiate_conversation toward another existing avatar B
\* with a message and neither has a conversationTarget, the step appends exactly
\* one conversation, with participants [A, B], no end time and the opening
\* message alone, and leaves A and B conversing with each other.
C16_InitiateOpensOne ==
    [][\A a, b \in Ids(state.avatars) :
         (/\ lastOp'.what = "initiate_conversation"
          /\ a # b
          /\ AvatarOf(state, a).conversationTarget = None
          /\ AvatarOf(state, b).conversationTarget = None
          /\ ExecuteDecision(a, Initiate(b)))
         => /\ Len(state'.conversations) = Len(state.conversations) + 1
            /\ SubSeq(state'.conversations, 1, Len(state.conversations)) = state.conversations
            /\ LET c == state'.conversations[Len(state'.conversations)]
               IN /\ c.participants = <<a, b>>
                  /\ ~c.endTime
                  /\ c.messages = << [avatarId |-> a, text |-> "hello"] >>
            /\ AvatarOf(state', a).currentAction = "conversing"
            /\ AvatarOf(state', b).currentAction = "conversing"
            /\ AvatarOf(state', a).conversationTarget = b
            /\ AvatarOf(state', b).conversationTarget = a]_vars

\* The second avatar opened the only conversation, with the first.
C16_Witness ==
    /\ lastOp = Op("executeDecision", None, "initiate_conversation")
    /\ Len(state.conversations) = 1
    /\ state.conversations[1].participants = <<2, 1>>
    /\ ~state.conversations[1].endTime
    /\ AvatarOf(state, 1).conversationTarget = 2
    /\ AvatarOf(state, 2).conversationTarget = 1
    /\ AvatarOf(state, 1).currentAction = "conversing"

\* C17: when A, whose conversationTarget is B, applies disengage_conversation
\* with targetId B, the active conversation of A and B gets its end time and
\* both A and B are left without conversationTarget and currentAction.
C17_DisengageClosesBoth ==
    [][\A a, b \in Ids(state.avatars) :
         (/\ lastOp'.op = "executeDecision"
          /\ AvatarOf(state, a).conversationTarget = b
          /\ ExecuteDecision(a, Disengage(b)))
         => /\ ActiveConvIndex(state.conversations, a, b) # 0
            /\ state'.conversations[ActiveConvIndex(state.conversations, a, b)].endTime
            /\ \A x \in {a, b} :
                  /\ AvatarOf(state', x).conversationTarget = None
                  /\ AvatarOf(state', x).currentAction = Undefined]_vars

\* A disengage_conversation closed the only conversation and freed both avatars.
C17_Witness ==
    /\ lastOp = Op("executeDecision", None, "disengage_conversation")
    /\ Len(state.conversations) = 1
    /\ state.conversations[1].endTime
    /\ \A i \in DOMAIN state.avatars :
          /\ state.avatars[i].conversationTarget = None
          /\ state.avatars[i].currentAction = Undefined

\* C18: the step that removes avatar A while more than 2 avatars exist takes A
\* off the avatar list, gives every conversation of A an end time, and leaves
\* every B that was in an active conversation with A without conversationTarget
\* and currentAction.
C18_RemovalCutsConversation ==
    [][\A a \in Ids(state.avatars) :
         (/\ lastOp'.op = "removeAvatar"
          /\ Len(state.avatars) > 2
          /\ state' = removeAvatar(state, a))
         => /\ a \notin Ids(state'.avatars)
            /\ Len(state'.conversations) = Len(state.conversations)
            /\ \A k \in DOMAIN state.conversations :
                  Includes(state.conversations[k], a) => state'.conversations[k].endTime
            /\ \A b \in Ids(state.avatars) \ {a} :
                  ActiveConversations(state, a, b) # {}
                  => /\ b \in Ids(state'.avatars)
                     /\ AvatarOf(state', b).conversationTarget = None
                     /\ AvatarOf(state', b).currentAction = Undefined]_vars

\* An avatar was removed; the conversation it had opened with the first avatar
\* has an end time and the first avatar is free.
C18_Witness ==
    /\ lastOp = Op("removeAvatar", None, "removed")
    /\ \E k \in DOMAIN state.conversations :
          /\ state.conversations[k].endTime
          /\ state.conversations[k].participants[1] \notin Ids(state.avatars)
          /\ state.conversations[k].participants[2] = 1
    /\ AvatarOf(state, 1).conversationTarget = None
    /\ AvatarOf(state, 1).currentAction = Undefined
    /\ AvatarOf(state, 1).thought = << >>

----------------------------------------------------------------------------
(* C20: the actions offered to an avatar *)

\* The offered set as the claim states it, from whether the avatar is conversing
\* (has a conversationTarget) and how many objects and avatars it sees.
Offered(conversing, nObjects, nAvatars) ==
    {"turn", "move", "think", "idle"}
    \cup (IF nObjects >= 1 /\ ~conversing THEN {"interact_object"} ELSE {})
    \cup (IF nAvatars >= 1 /\ ~conversing THEN {"initiate_conversation"} ELSE {})
    \cup (IF conversing THEN {"continue_conversation", "disengage_conversation"} ELSE {})

\* C20: every decision request a firing makes offers the avatar exactly: turn,
\* move, think and idle; interact_object iff it sees at least one object and is
\* not conversing; initiate_conversation iff it sees at least one avatar and is
\* not conversing; continue_conversation and disengage_conversation iff it is
\* conversing (conversing: it has a conversationTarget).
C20_OfferedActions ==
    [][lastOp'.op = "tick"
       => \A r \in inflight' \ inflight :
            LET avatar == AvatarOf(state, r.avatar)
            IN r.availableActions =
                 Offered(avatar.conversationTarget # None,
                         Cardinality(visibleObjects(state, avatar)),
                         Cardinality(visibleAvatars(state, avatar)))]_vars

\* A firing has just asked for two avatars that converse with each other, one
\* of which sees an object: neither is offered interact_object or
\* initiate_conversation, both are offered the two conversation actions.
C20_Witness ==
    /\ lastOp = Op("tick", None, "dispatched")
    /\ \E r1, r2 \in inflight :
          /\ r1.gen = r2.gen
          /\ AvatarOf(state, r1.avatar).conversationTarget = r2.avatar
          /\ AvatarOf(state, r2.avatar).conversationTarget = r1.avatar
          /\ visibleObjects(state, AvatarOf(state, r1.avatar)) # {}
          /\ r1.availableActions = {"turn", "move", "think", "idle",
                                    "continue_conversation", "disengage_conversation"}
          /\ r2.availableActions = r1.availableActions

----------------------------------------------------------------------------
(* C21: the delay of the next firing *)

\* The delay as the claim states it.
ClaimedDelay(simulation) ==
    IF simulation.mode = "turn-based"
    THEN Max(10, simulation.turnDuration)
    ELSE Max(10, 50 \div simulation.timeScale)

\* A step that calls setTimeout(tick, delay): the effect's first timer, or the
\* timer set once a firing's requests have all settled.
Schedules ==
    \/ clock'.timers \ clock.timers # {}
    \/ lastOp'.op = "tick" /\ lastOp'.what = "none due"

\* C21: every firing is scheduled with a delay of exactly the turn duration in
\* turn-based mode, whatever the speed multiplier, and of 50 ms divided by the
\* speed multiplier in time-based mode, and never of less than 10 ms.
C21_TickDelay ==
    [][Schedules => /\ clock'.delay = ClaimedDelay(state'.simulation)
                    /\ clock'.delay >= 10]_vars

----------------------------------------------------------------------------
(* C22, C23: resizing the board *)

Positions(entities) == [i \in DOMAIN entities |-> entities[i].position]

\* C22: resizeBoard called with the board's current width and height leaves the
\* position of every avatar, object and obstacle as it was.
C22_ResizeToSameSizeKeepsPositions ==
    [][lastOp'.op = "resizeBoard" /\ lastOp'.what = "same size"
       => /\ Positions(state'.avatars) = Positions(state.avatars)
          /\ Positions(state'.objects) = Positions(state.objects)
          /\ Positions(state'.obstacles) = Positions(state.obstacles)]_vars

\* An obstacle that lies entirely outside a board of the given size.
EntirelyOutside(ob, size) == ob.position.x > size.width \/ ob.position.y > size.height

\* C23: after resizeBoard every avatar, object and remaining obstacle has its
\* position inside the new bounds, and every obstacle that lay entirely outside
\* the new bounds is gone.
C23_ResizeKeepsEntitiesInBounds ==
    [][lastOp'.op = "resizeBoard"
       => LET size == state'.simulation.boardSize
          IN /\ \A i \in DOMAIN state'.avatars : isPointInBounds(state'.avatars[i].position, size)
             /\ \A i \in DOMAIN state'.objects : isPointInBounds(state'.objects[i].position, size)
             /\ \A i \in DOMAIN state'.obstacles :
                   isPointInBounds(state'.obstacles[i].position, size)
             /\ \A i \in DOMAIN state.obstacles :
                   EntirelyOutside(state.obstacles[i], size)
                   => state.obstacles[i].id \notin Ids(state'.obstacles)]_vars

----------------------------------------------------------------------------
(* C24: the event log *)

\* C24: the event log never holds more than 100 entries, and what it holds are
\* the most recent entries in the order they were written (the oldest ones are
\* the ones evicted).
C24_LogBounded ==
    LET logs == state.simulationLogs
    IN /\ Len(logs) <= 100
       /\ \A i \in 1..(Len(logs) - 1) : logs[i + 1] = logs[i] + 1

----------------------------------------------------------------------------
(* C25: a decision changes its own avatar only *)

\* The step opened a conversation / gave a conversation its end time.
OpenedConversation == Len(state'.conversations) > Len(state.conversations)

EndedConversation ==
    \E k \in DOMAIN state.conversations :
        state'.conversations[k].endTime /\ ~state.conversations[k].endTime

\* In this step no avatar but x changes, except that the partner y named by x's
\* initiate_conversation or disengage_conversation, when it succeeds, may get a
\* new conversationTarget and currentAction.
OthersKept(x, d) ==
    \A y \in Ids(state.avatars) \ {x} :
        /\ y \in Ids(state'.avatars)
        /\ LET before == AvatarOf(state, y)
               after == AvatarOf(state', y)
           IN /\ [after EXCEPT !.conversationTarget = before.conversationTarget,
                               !.currentAction = before.currentAction] = before
              /\ after # before
                 => /\ "targetId" \in DOMAIN d.parameters
                    /\ d.parameters.targetId = y
                    /\ \/ d.action = "initiate_conversation" /\ OpenedConversation
                       \/ d.action = "disengage_conversation" /\ EndedConversation

\* In this step x's own update is written: its thought begins with the
\* decision's, its next decision time is the delay of the decision, and a turn
\* or an unblocked move shows in its orientation or position.
OwnWritten(x, d) ==
    LET before == AvatarOf(state, x)
        after == AvatarOf(state', x)
    IN /\ Len(after.thought) >= Len(d.thought)
       /\ SubSeq(after.thought, 1, Len(d.thought)) = d.thought
       /\ after.nextDecisionTime = ResolvedDelay(before, d)
       /\ d.action = "turn" => after.orientation = (before.orientation + 30) % 360
       /\ d.action = "move" =>
             \/ after.position = Candidate(before, d)
             \/ after.position = before.position /\ Len(after.thought) > Len(d.thought)

\* C25: the step that applies avatar X's decision changes no field of another
\* avatar Y, but Y's conversationTarget and currentAction when Y is the partner
\* of a successful initiate or disengage by X, and writes X's own update; so the
\* requests of one firing, settling in any order, each leave their update in
\* the state.
C25_DecisionsDoNotClobber ==
    [][\A r \in inflight :
         /\ \A d \in FrameDecisions(state, r.avatar) :
               (lastOp'.op = "fulfilled" /\ Fulfil(r, d))
               => OthersKept(r.avatar, d) /\ OwnWritten(r.avatar, d)
         /\ (lastOp'.op = "rejected" /\ Reject(r))
               => OthersKept(r.avatar, FallbackDecision)
                  /\ OwnWritten(r.avatar, FallbackDecision)]_vars

\* Both requests of the first firing have just settled: the first avatar has
\* moved, the second has turned, and each has its thought and its full delay.
C25_Witness ==
    /\ lastOp.op = "fulfilled"
    /\ inflight = {}
    /\ AvatarOf(state, 1).position = [x |-> 60000, y |-> 50000]
    /\ AvatarOf(state, 1).thought = <<"t">>
    /\ AvatarOf(state, 1).nextDecisionTime = DefaultRateLimit
    /\ AvatarOf(state, 2).orientation = 210
    /\ AvatarOf(state, 2).thought = <<"t">>
    /\ AvatarOf(state, 2).nextDecisionTime = SecondRateLimit

----------------------------------------------------------------------------
(* C26: loading a persisted world *)

\* C26: the load of a persisted world leaves the world paused, with every
\* avatar free to decide at once (nextDecisionTime 0), without currentAction and
\* conversationTarget and with eyesight angle 180; a persisted world with fewer
\* than 2 avatars or without avatar list is replaced by the default initial
\* world.
C26_LoadResets ==
    [][lastOp'.op = "load"
       => /\ ~state'.isRunning
          /\ \A i \in DOMAIN state'.avatars :
                /\ state'.avatars[i].nextDecisionTime = 0
                /\ state'.avatars[i].currentAction = Undefined
                /\ state'.avatars[i].conversationTarget = None
                /\ state'.avatars[i].settings.eyesight.angle = 180
          /\ lastOp'.what \in {"short", "no list"}
                => state' = createInitialState(nextIdCounter)]_vars

\* A world of three avatars with a conversation under way and another eyesight
\* angle in the store has just been loaded.
C26_Witness ==
    /\ lastOp = Op("load", None, "narrow")
    /\ Len(state.avatars) = 3
    /\ \E k \in DOMAIN state.conversations : ~state.conversations[k].endTime
    /\ \A i \in DOMAIN state.avatars : state.avatars[i].settings.eyesight.angle = 180

----------------------------------------------------------------------------
(* C27: the resolver against the flow's validation *)

\* The world after the resolver is handed decision d for avatar a as it is.
Direct(a, d) ==
    executeDecisionUpdate(state, a, IF d.action = "think" THEN "thinking" ELSE d.action,
                          d.parameters, initialThought(d), nextIdCounter)

\* C27: for every output of the model, the world after the validated output went
\* through the resolver is the world the resolver makes of the output itself:
\* the resolver defaults and clamps as the flow's validation does.
C27_ResolverAgreesWithSanitizer ==
    [][\A r \in inflight : \A o \in RawOutputs(state, r.avatar) :
         (lastOp'.op = "fulfilled" /\ Answer(r, o)) => state' = Direct(r.avatar, o)]_vars

----------------------------------------------------------------------------
(* C28: initiate_conversation whose precondition fails *)

InitiateDecisions(s) == {d \in ConversationDecisions(s) : d.action = "initiate_conversation"}

\* The notes that name a reason why a's initiate_conversation d fails in the
\* current state; none if it does not fail.
InitiateFailures(a, d) ==
    LET p == d.parameters
        noParams == "targetId" \notin DOMAIN p \/ "message" \notin DOMAIN p
        t == IF "targetId" \in DOMAIN p THEN p.targetId ELSE None
    IN (IF noParams THEN {"(Missing parameters for initiate_conversation)"} ELSE {})
       \cup (IF AvatarOf(state, a).conversationTarget # None
             THEN {"(Tried to initiate conversation while already in one)"} ELSE {})
       \cup (IF ~noParams /\ (t \notin Ids(state.avatars) \/ t = a)
             THEN {"(Target avatar invalid)"} ELSE {})
       \cup (IF ~noParams /\ t \in Ids(state.avatars) /\ t # a
                /\ AvatarOf(state, t).conversationTarget # None
             THEN {"(Target busy)"} ELSE {})

\* C28: an initiate_conversation by A whose precondition fails (targetId or
\* message missing, A already has a conversationTarget, the target does not
\* exist, is A itself, or already has a conversationTarget) creates no
\* conversation, changes no other avatar, keeps A's conversationTarget, leaves
\* A without currentAction and appends to A's thought a note of a reason that
\* applies.
C28_FailedInitiate ==
    [][\A a \in Ids(state.avatars) : \A d \in InitiateDecisions(state) :
         (/\ lastOp'.what = "initiate_conversation"
          /\ InitiateFailures(a, d) # {}
          /\ ExecuteDecision(a, d))
         => /\ state'.conversations = state.conversations
            /\ \A y \in Ids(state.avatars) \ {a} : AvatarOf(state', y) = AvatarOf(state, y)
            /\ AvatarOf(state', a).conversationTarget = AvatarOf(state, a).conversationTarget
            /\ AvatarOf(state', a).currentAction = Undefined
            /\ \E note \in InitiateFailures(a, d) :
                  AvatarOf(state', a).thought = Append(d.thought, note)]_vars

\* The first avatar, in a conversation with the second, tried to open another
\* one: it keeps its target, has no currentAction, and the one conversation
\* stands as it was.
C28_Witness ==
    /\ lastOp = Op("executeDecision", None, "initiate_conversation")
    /\ AvatarOf(state, 1).thought
         = <<"t", "(Tried to initiate conversation while already in one)">>
    /\ AvatarOf(state, 1).conversationTarget = 2
    /\ AvatarOf(state, 1).currentAction = Undefined
    /\ AvatarOf(state, 2).conversationTarget = 1
    /\ Len(state.conversations) = 1
    /\ ~state.conversations[1].endTime

----------------------------------------------------------------------------
(* C29: continue_conversation that succeeds *)

\* C29: a continue_conversation by A toward its conversationTarget B with a
\* message, while an active conversation of A and B exists, puts exactly that
\* message, authored by A, at the end of the conversation's log, keeps the
\* earlier messages in their order, as many of the latest as fit a log of 20,
\* leaves A conversing and both conversationTargets as they were.
C29_ContinueAppendsOne ==
    [][\A a \in Ids(state.avatars) :
         (lastOp'.what = "continue_conversation" /\ Say(a))
         => LET b == AvatarOf(state, a).conversationTarget
                k == ActiveConvIndex(state.conversations, a, b)
                old == state.conversations[k].messages
                new == state'.conversations[k].messages
            IN /\ Len(new) <= 20
               /\ Len(new) = IF Len(old) < 20 THEN Len(old) + 1 ELSE 20
               /\ new[Len(new)] = [avatarId |-> a,
                                   text |-> Texts[TextIndex(old[Len(old)].text) + 1]]
               /\ \A i \in 1..(Len(new) - 1) : new[i] = old[Len(old) - (Len(new) - 1) + i]
               /\ \A i \in DOMAIN state.conversations :
                     i # k => state'.conversations[i] = state.conversations[i]
               /\ AvatarOf(state', a).currentAction = "conversing"
               /\ AvatarOf(state', a).conversationTarget = b
               /\ AvatarOf(state', b).conversationTarget
                    = AvatarOf(state, b).conversationTarget]_vars

\* The conversation has gone on beyond the capacity of its log: the log holds
\* the latest 20 of the 23 messages.
C29_Witness ==
    /\ lastOp = Op("executeDecision", None, "continue_conversation")
    /\ Len(state.conversations) = 1
    /\ Len(state.conversations[1].messages) = 20
    /\ state.conversations[1].messages[1].text = "m4"
    /\ state.conversations[1].messages[20].text = "m23"
    /\ state.conversations[1].messages[20].avatarId
         # state.conversations[1].messages[19].avatarId

----------------------------------------------------------------------------
(* C30: continue_conversation whose precondition fails *)

ContinueDecisions(s) == {d \in ConversationDecisions(s) : d.action = "continue_conversation"}

\* a's continue_conversation d fails in the current state: a parameter is
\* missing, the target is not a's conversationTarget, or the two have no active
\* conversation.
ContinueFails(a, d) ==
    LET p == d.parameters
    IN \/ "targetId" \notin DOMAIN p
       \/ "message" \notin DOMAIN p
       \/ p.targetId # AvatarOf(state, a).conversationTarget
       \/ ActiveConversations(state, a, p.targetId) = {}

\* C30: a continue_conversation by A whose precondition fails appends no message
\* to any conversation, leaves A without currentAction and without
\* conversationTarget, and appends a note to A's thought.
C30_FailedContinue ==
    [][\A a \in Ids(state.avatars) : \A d \in ContinueDecisions(state) :
         (/\ lastOp'.what = "continue_conversation"
          /\ ContinueFails(a, d)
          /\ ExecuteDecision(a, d))
         => /\ state'.conversations = state.conversations
            /\ AvatarOf(state', a).currentAction = Undefined
            /\ AvatarOf(state', a).conversationTarget = None
            /\ \E note \in {"(Invalid parameters or state for continue_conversation)",
                              "(No active conversation)"} :
                  AvatarOf(state', a).thought = Append(d.thought, note)]_vars

\* The first avatar, in a conversation with the second, sent a
\* continue_conversation that failed: it has lost its target and its action,
\* and the conversation has the one message it had.
C30_Witness ==
    /\ lastOp = Op("executeDecision", None, "continue_conversation")
    /\ AvatarOf(state, 1).thought
         = <<"t", "(Invalid parameters or state for continue_conversation)">>
    /\ AvatarOf(state, 1).conversationTarget = None
    /\ AvatarOf(state, 1).currentAction = Undefined
    /\ Len(state.conversations) = 1
    /\ ~state.conversations[1].endTime
    /\ Len(state.conversations[1].messages) = 1
    /\ Includes(state.conversations[1], 1)

----------------------------------------------------------------------------
(* C31: disengage_conversation whose precondition fails *)

DisengageDecisions(s) == {d \in ConversationDecisions(s) : d.action = "disengage_conversation"}

\* a's disengage_conversation d fails in the current state: the targetId is
\* missing or is not a's conversationTarget.
DisengageFails(a, d) ==
    \/ "targetId" \notin DOMAIN d.parameters
    \/ d.parameters.targetId # AvatarOf(state, a).conversationTarget

\* C31: a disengage_conversation by A whose targetId is missing or differs from
\* A's conversationTarget ends no conversation and changes no conversationTarget;
\* A's currentAction is absent afterwards if A was not conversing and is what it
\* was (conversing) if A was; A's thought is the decision's thought and a note.
C31_FailedDisengage ==
    [][\A a \in Ids(state.avatars) : \A d \in DisengageDecisions(state) :
         (/\ lastOp'.what = "disengage_conversation"
          /\ DisengageFails(a, d)
          /\ ExecuteDecision(a, d))
         => /\ state'.conversations = state.conversations
            /\ \A x \in Ids(state.avatars) :
                  AvatarOf(state', x).conversationTarget
                      = AvatarOf(state, x).conversationTarget
            /\ AvatarOf(state', a).currentAction
                  = (IF AvatarOf(state, a).conversationTarget = None THEN Undefined
                     ELSE AvatarOf(state, a).currentAction)
            /\ AvatarOf(state', a).thought
                  = Append(d.thought,
                           "(Cannot disengage, not in conversation or missing target)")]_vars

----------------------------------------------------------------------------
(* C32: idle, think and unrecognized actions *)

\* The step is executeDecision(a, d) for a decision to pause.
Rests(a, d) ==
    /\ d.action \in RestActions
    /\ lastOp'.what \in {"idle", "thinking", UnknownAction}
    /\ ExecuteDecision(a, d)

\* C32: after a decision that resolves to idle or thinking (idle, think, or an
\* action the resolver does not know) the avatar's currentAction is absent and
\* its nextDecisionTime lies at least 100 ms and at most 10 s ahead; a think
\* decision changes no position, no orientation and no conversation, and the
\* thought it carries is the avatar's thought afterwards.
C32_RestingClearsAction ==
    [][\A a \in Ids(state.avatars) : \A d \in RestDecisions(state, a) :
         Rests(a, d)
         => /\ AvatarOf(state', a).currentAction = Undefined
            /\ AvatarOf(state', a).nextDecisionTime \in MinDelay..MaxDelay
            /\ AvatarOf(state', a).nextDecisionTime
                  = Min(MaxDelay, Max(MinDelay, ParamOr(d.parameters, "duration",
                                                       AvatarOf(state, a).settings.rateLimit)))
            /\ d.action = "think"
                 => /\ \A x \in Ids(state.avatars) :
                          /\ AvatarOf(state', x).position = AvatarOf(state, x).position
                          /\ AvatarOf(state', x).orientation = AvatarOf(state, x).orientation
                          /\ AvatarOf(state', x).conversationTarget
                                = AvatarOf(state, x).conversationTarget
                    /\ state'.conversations = state.conversations
                    /\ d.thought # << >> => AvatarOf(state', a).thought = d.thought]_vars

\* An avatar that has turned and is in a conversation has thought: its
\* currentAction is absent, its thought is the decision's, its partner and its
\* orientation are what they were.
C32_Witness ==
    /\ lastOp = Op("executeDecision", None, "thinking")
    /\ \E i \in DOMAIN state.avatars :
          /\ state.avatars[i].thought = <<"why">>
          /\ state.avatars[i].currentAction = Undefined
          /\ state.avatars[i].conversationTarget # None
          /\ state.avatars[i].orientation = 90
          /\ state.avatars[i].nextDecisionTime >= MinDelay
    /\ Len(state.conversations) = 1

----------------------------------------------------------------------------
(* C33: what a firing dispatches *)

\* The step is a tick firing that passes the guard of tick (the simulation runs
\* and no firing of the same loop is in progress).
Fires ==
    /\ lastOp'.op = "tick"
    /\ lastOp'.what # "stopped"
    /\ \E g \in clock.timers : Tick(g)

\* C33: a tick firing dispatches one decision request for every avatar of the
\* world whose nextDecisionTime has come and none for an avatar whose
\* nextDecisionTime lies ahead; all of them are dispatched in the one step, in
\* which no request is awaited or settled and the world does not change.
C33_FiringDispatchesDue ==
    [][Fires
       => LET new == inflight' \ inflight
          IN /\ inflight \subseteq inflight'
             /\ state' = state
             /\ \A r \in new : r.avatar \in Ids(state.avatars) /\ r.phase = "decision"
             /\ \A a \in Ids(state.avatars) :
                   Cardinality({r \in new : r.avatar = a})
                       = (IF AvatarOf(state, a).nextDecisionTime <= 0 THEN 1 ELSE 0)]_vars

\* A firing has just dispatched a request for an avatar that was due and none
\* for an avatar whose nextDecisionTime lies ahead.
C33_Witness ==
    /\ lastOp = Op("tick", None, "dispatched")
    /\ \E a, b \in Ids(state.avatars) :
          /\ AvatarOf(state, a).nextDecisionTime = 0
          /\ \E r \in inflight : r.avatar = a /\ r.gen # 0 /\ clock.isTicking[r.gen]
          /\ AvatarOf(state, b).nextDecisionTime > 0
          /\ ~\E r \in inflight : r.avatar = b

----------------------------------------------------------------------------
(* C34: the visibility test *)

\* The bearing from the origin to (dx, dy) in half degrees, within (-360, 360]:
\* exact on the axes and the diagonals, the middle of the octant elsewhere;
\* Math.atan2(0, 0) is 0.
Bearing2(dx, dy) ==
    LET up(x, y) ==
            IF y = 0 THEN (IF x >= 0 THEN 0 ELSE 360)
            ELSE IF x = 0 THEN 180
            ELSE IF x > 0 THEN (IF y < x THEN 45 ELSE IF y = x THEN 90 ELSE 135)
            ELSE (IF y < -x THEN 315 ELSE IF y = -x THEN 270 ELSE 225)
    IN IF dy >= 0 THEN up(dx, dy) ELSE -up(dx, -dy)

\* An angle in half degrees brought into (-360, 360].
Normalized2(a) == ((a + 359) % 720) - 359

WithinRadius(avatar, p) ==
    /\ Abs(p.x - avatar.position.x) <= avatar.settings.eyesight.radius
    /\ Abs(p.y - avatar.position.y) <= avatar.settings.eyesight.radius
    /\ squaredDistance(avatar, p)
         <= (avatar.settings.eyesight.radius \div 10) * (avatar.settings.eyesight.radius \div 10)

\* The test as stated: the distance is at most the radius and the difference
\* between the orientation and the bearing is at most half the cone angle.
StatedVisible(avatar, p) ==
    /\ WithinRadius(avatar, p)
    /\ Abs(Normalized2(Bearing2(p.x - avatar.position.x, p.y - avatar.position.y)
                       - 2 * avatar.orientation))
         <= avatar.settings.eyesight.angle

\* The same test, for a point that is not the observer's own position.
StatedVisibleApart(avatar, p) ==
    /\ p # avatar.position
    /\ StatedVisible(avatar, p)

\* The obstacles listed under a test: those with a passing point among the
\* four corners and the centre, with the least distance of a passing point.
ListedObstacles(s, avatar, Test(_, _)) ==
    LET corners(obs) ==
            {obs.position,
             [x |-> obs.position.x + obs.size.x, y |-> obs.position.y],
             [x |-> obs.position.x, y |-> obs.position.y + obs.size.y],
             [x |-> obs.position.x + obs.size.x, y |-> obs.position.y + obs.size.y],
             [x |-> obs.position.x + obs.size.x \div 2,
              y |-> obs.position.y + obs.size.y \div 2]}
        passing(obs) == {q \in corners(obs) : Test(avatar, q)}
        distances(obs) == {roundedRoot(squaredDistance(avatar, q)) : q \in passing(obs)}
    IN {[id |-> s.obstacles[i].id,
         distance |-> CHOOSE d \in distances(s.obstacles[i]) :
                         \A e \in distances(s.obstacles[i]) : d <= e] :
            i \in {j \in DOMAIN s.obstacles : passing(s.obstacles[j]) # {}}}

\* What getSensoryInput returns for the avatar a agrees with a test.
SeesBy(a, Test(_, _)) ==
    LET avatar == AvatarOf(state, a)
    IN \A r \in inflight' :
          /\ r.avatar = a
          /\ r.visibleAvatars
               = {x \in Ids(state.avatars) \ {a} : Test(avatar, AvatarOf(state, x).position)}
          /\ r.visibleObjects
               = {state.objects[i].id :
                    i \in {j \in DOMAIN state.objects : Test(avatar, state.objects[j].position)}}
          /\ r.visibleObstacles = ListedObstacles(state, avatar, Test)

Senses(a) == lastOp'.op = "getSensoryInput" /\ GetSensoryInput(a)

\* C34 as stated: a point is visible iff its distance is at most the eyesight
\* radius and the difference between the orientation and the bearing to it,
\* normalized to (-180, 180], is at most half the cone angle; an obstacle is
\* listed iff one of its corners or its centre is, with the least such distance.
C34_VisibleAsStated ==
    [][\A a \in Ids(state.avatars) : Senses(a) => SeesBy(a, StatedVisible)]_vars

\* C34, amended: a point other than the observer's own position is visible iff
\* its distance is at most the eyesight radius and the difference between the
\* orientation and the bearing to it, normalized to (-180, 180], is at most half
\* the cone angle; a point at the observer's position is not visible; an
\* obstacle is listed iff one of its corners or its centre is visible, with the
\* rounded distance of the closest visible one.
C34_VisibleApart ==
    [][\A a \in Ids(state.avatars) : Senses(a) => SeesBy(a, StatedVisibleApart)]_vars

\* An avatar that stands at the centre of an obstacle and faces a corner of it
\* has looked around: the obstacle is listed at the distance of the corner.
C34_Witness ==
    /\ lastOp = Op("getSensoryInput", None, "")
    /\ \E r \in inflight : \E i \in DOMAIN state.obstacles :
          /\ AvatarOf(state, r.avatar).position = pointsToCheck(state.obstacles[i])[5]
          /\ AvatarOf(state, r.avatar).orientation = 0
          /\ \E o \in r.visibleObstacles :
                o.id = state.obstacles[i].id /\ o.distance = 75

----------------------------------------------------------------------------
(* C35: requests outstanding for one avatar *)

\* The requests in flight for the avatar a: its decision, or the interaction
\* nested in it, has not been handed to the resolver yet.
Outstanding(a) == {r \in inflight : r.avatar = a}

\* C35: no avatar ever has two decision requests outstanding at once, whatever
\* the order of firings, settlements, pauses and resumes.
C35_OneRequestPerAvatar ==
    \A a \in 1..MaxIdCounter : Cardinality(Outstanding(a)) <= 1

----------------------------------------------------------------------------
(* C36: a decision that settles for an avatar that is gone *)

\* The step settles the request r: its decision is fulfilled or rejected, or the
\* interaction nested in it settles.
Settles(r) ==
    \/ \E d \in StaleDecisions(state, r.avatar) : Fulfil(r, d)
    \/ Reject(r)
    \/ \E ok \in BOOLEAN : InteractionSettles(r, ok)

\* C36: a decision that settles for an avatar that is no longer in the world
\* (removed, or replaced by a reset, while its request was in flight) leaves the
\* avatars and the conversations as they were.
C36_StaleDecisionIgnored ==
    [][\A r \in inflight :
         (/\ r.avatar \notin Ids(state.avatars)
          /\ lastOp'.op \in {"fulfilled", "rejected", "interaction"}
          /\ Settles(r))
         => /\ state'.avatars = state.avatars
            /\ state'.conversations = state.conversations]_vars

\* The decision of an avatar that was added and then removed while its request
\* was in flight has settled: the two avatars left have not been touched.
C36_Witness ==
    /\ lastOp = Op("fulfilled", None, "not found")
    /\ nextIdCounter = 2 + IdsPerInitialState
    /\ Ids(state.avatars) = {1, 2}
    /\ \A i \in DOMAIN state.avatars :
          state.avatars[i].thought = << >> /\ state.avatars[i].nextDecisionTime = 0
    /\ state.conversations = << >>

----------------------------------------------------------------------------
(* C37: what a decision leaves alone *)

\* The step hands a decision to the resolver: a request is fulfilled or
\* rejected, or the interaction nested in it settles.
DecisionApplied ==
    /\ lastOp'.op \in {"fulfilled", "rejected", "interaction"}
    /\ \E r \in inflight :
          \/ \E d \in EffectDecisions(state, r.avatar) : Fulfil(r, d)
          \/ Reject(r)
          \/ \E ok \in BOOLEAN : InteractionSettles(r, ok)

\* C37: no application of a decision changes the objects, the obstacles, the
\* simulation settings or the running flag, an interact_object included; and
\* the running flag changes only in a toggle, a pause, a reset or a load.
C37_DecisionsLeaveWorldAlone ==
    [][/\ DecisionApplied
          => /\ state'.objects = state.objects
             /\ state'.obstacles = state.obstacles
             /\ state'.simulation = state.simulation
             /\ state'.isRunning = state.isRunning
       /\ state'.isRunning # state.isRunning
          => lastOp'.op \in {"toggleSimulation", "pauseSimulation",
                             "resetSimulation", "load"}]_vars

\* The interaction of an avatar with the object of the board has settled while
\* the simulation runs: the object is still there.
C37_Witness ==
    /\ lastOp = Op("interaction", None, "idle")
    /\ state.isRunning
    /\ Len(state.objects) = 1
    /\ state.objects[1].description = "A curious glowing orb."
    /\ \E i \in DOMAIN state.avatars :
          state.avatars[i].thought = <<"Interacted. Reaction">>

----------------------------------------------------------------------------
(* C38: initiate_conversation decisions that compete for an avatar *)

\* The decision d of the request r is an initiate_conversation that comes
\* second: its avatar or its target has been taken into a conversation since
\* the request was dispatched.
ComesSecond(r, d) ==
    /\ d.action = "initiate_conversation"
    /\ r.avatar \in Ids(state.avatars)
    /\ \/ AvatarOf(state, r.avatar).conversationTarget # None
       \/ AvatarOf(state, d.parameters.targetId).conversationTarget # None

\* C38: of the initiate_conversation decisions of one firing that compete for
\* an avatar (A toward B and B toward A, or A toward C and B toward C), settling
\* in any order, one creates a conversation; a later one creates none, leaves
\* the conversation and every conversationTarget as they are, and leaves its
\* avatar idle with a note in its thought.
C38_OneInitiateWins ==
    /\ [](Len(state.conversations) <= 1)
    /\ [][\A r \in inflight : \A d \in RaceDecisions(state, r.avatar) :
            (/\ lastOp'.what = "initiate_conversation"
             /\ ComesSecond(r, d)
             /\ Fulfil(r, d))
            => /\ state'.conversations = state.conversations
               /\ \A x \in Ids(state.avatars) :
                     AvatarOf(state', x).conversationTarget
                         = AvatarOf(state, x).conversationTarget
               /\ AvatarOf(state', r.avatar).currentAction = Undefined
               /\ \E note \in {"(Target busy)",
                                 "(Tried to initiate conversation while already in one)"} :
                     AvatarOf(state', r.avatar).thought = Append(d.thought, note)]_vars

\* Of three avatars dispatched by one firing, two chose the third: the first
\* decision to settle opened the conversation, the second found the target busy.
C38_Witness ==
    /\ lastOp = Op("fulfilled", None, "initiate_conversation")
    /\ Len(state.avatars) = 3
    /\ Len(state.conversations) = 1
    /\ ~state.conversations[1].endTime
    /\ Len(state.conversations[1].messages) = 1
    /\ \E a, b, c \in Ids(state.avatars) :
          /\ state.conversations[1].participants = <<a, c>>
          /\ b \notin {a, c}
          /\ AvatarOf(state, a).conversationTarget = c
          /\ AvatarOf(state, c).conversationTarget = a
          /\ AvatarOf(state, b).conversationTarget = None
          /\ AvatarOf(state, b).currentAction = Undefined
          /\ AvatarOf(state, b).thought = <<"t", "(Target busy)">>
          /\ \E r \in inflight : r.avatar = c /\ r.gen # 0

----------------------------------------------------------------------------
(* C39: ended conversations *)

\* C39: a conversation that has an end time is never changed again: whatever
\* decision is applied or avatar removed afterwards, it keeps its place, its
\* participants, its messages and its end time.
C39_EndedIsFinal ==
    [][\A k \in DOMAIN state.conversations :
         state.conversations[k].endTime
         => /\ k \in DOMAIN state'.conversations
            /\ state'.conversations[k] = state.conversations[k]]_vars

\* Two avatars ended a conversation and opened another, which went on: the
\* first has the one message and the end time it ended with.
C39_Witness ==
    /\ lastOp = Op("executeDecision", None, "continue_conversation")
    /\ Len(state.conversations) = 2
    /\ state.conversations[1].endTime
    /\ state.conversations[1].endedAt = 1
    /\ Len(state.conversations[1].messages) = 1
    /\ ~state.conversations[2].endTime
    /\ Len(state.conversations[2].messages) = 2
    /\ \A a \in Ids(state.avatars) :
          Includes(state.conversations[1], a) <=> Includes(state.conversations[2], a)

----------------------------------------------------------------------------
(* C40: avatars stay on the board *)

\* C40: in every world reached from the initial one by move decisions,
\* addAvatar, removeAvatar and resizeBoard, the position of every avatar lies
\* within the board: 0 <= x <= width and 0 <= y <= height.
C40_AvatarsOnBoard ==
    \A i \in DOMAIN state.avatars :
        /\ 0 <= state.avatars[i].position.x
        /\ state.avatars[i].position.x <= state.simulation.boardSize.width
        /\ 0 <= state.avatars[i].position.y
        /\ state.avatars[i].position.y <= state.simulation.boardSize.height

\* On the board shrunk to 100 by 100 an avatar that was brought in from beyond
\* the new edge tried to move across it and was held back.
C40_Witness ==
    /\ lastOp = Op("executeDecision", None, "move")
    /\ state.simulation.boardSize = [width |-> MinBoardSize, height |-> MinBoardSize]
    /\ \E i \in DOMAIN state.avatars :
          /\ state.avatars[i].position.x = MinBoardSize - AvatarInset
          /\ state.avatars[i].thought = <<"t", "(Movement blocked)">>

====
